---------------------------- MODULE Spec2Model ----------------------------
(***************************************************************************)
(* Matroska media source (MKVSource): the byte buffer, the EBML parser,    *)
(* the frame ring and the source state machine, modelled at byte level.    *)
(*                                                                         *)
(* DWORD values are kept as their signed 32-bit representatives (the       *)
(* value 0xFFFFFFFF is -1), unsigned comparisons go through ULt/UGt.       *)
(***************************************************************************)
EXTENDS Integers, Sequences, FiniteSets, TLC

(***************************************************************************)
(* Bounds of the model.                                                    *)
(***************************************************************************)
\* bytes requested per read (the header that defines READ_SIZE is not part
\* of the sources; the value is scaled down)
READ_SIZE == 16
\* initial allocation of the read buffer (scaled down likewise)
INITIAL_BUFFER_SIZE == 16
\* the restart counter is not incremented beyond this value
MaxRestart == 1
\* at most this many calls of Start name a start position other than 0
MaxSeeks == 1
\* at most this many operations wait in the operation queue
MaxQueue == 1
\* at most this many reads return fewer bytes than asked for before the end
\* of the file
MaxShortReads == 1
\* at most this many samples are requested from one stream without an answer
MaxRequests == 1

MaxCalls == 3

(***************************************************************************)
(* Program constants.                                                      *)
(***************************************************************************)
MASTER == 1
_UNSIGNED == 3
_SIGNED == 3
TEXTA == 4
TEXTU == 5
BINARY == 6
_FLOAT == 7
_DATE == 8
JUST_GO_ON == 10
m_cirBufferLength == 30

NullStr == "<null>"

(***************************************************************************)
(* 32-bit helpers.                                                         *)
(***************************************************************************)
\* Only([x \in {e} |-> b]) is b with x standing for the value of e
Only(f) == f[CHOOSE k \in DOMAIN f : TRUE]

\* a < b for DWORDs held as signed representatives
ULt(a, b) == IF (a >= 0) = (b >= 0) THEN a < b ELSE a >= 0

UGt(a, b) == ULt(b, a)

\* (code * 0x100 + b) mod 2^32 for a DWORD code, as a signed representative
Mul256Add(code, b) ==
    LET lo == code % 16777216
    IN  IF lo >= 8388608 THEN (lo - 16777216) * 256 + b ELSE lo * 256 + b

Min(a, b) == IF a < b THEN a ELSE b

Max(a, b) == IF a > b THEN a ELSE b

RECURSIVE Pow2(_)
Pow2(n) == IF n = 0 THEN 1 ELSE 2 * Pow2(n - 1)

(***************************************************************************)
(* Reading memory through a cursor.  A cursor is the triple the parser     *)
(* threads through its helpers (pData, cbLen, pAte) plus the fault raised  *)
(* so far.  p is the offset of pData in the array behind the buffer.  A    *)
(* read outside the allocation is undefined: it yields the byte oob, or    *)
(* an access violation when oob is -1.                                     *)
(***************************************************************************)
Peek(mem, p, oob) == IF p >= 0 /\ p < Len(mem) THEN mem[p + 1] ELSE oob

Faulted(c) == c.fault # "none"

\* *pData read, then pData++, cbLen--, (*pAte)++
Step(mem, c, oob) ==
    IF Faulted(c) THEN c
    ELSE [c EXCEPT !.p = @ + 1, !.cbLen = @ - 1, !.ate = @ + 1,
                   !.fault = IF Peek(mem, c.p, oob) = -1 THEN "crash" ELSE @]

\* the window moved ahead only: the header of an element that does not fit is
\* not given back
SkipAhead(c, n) ==
    IF n < 0 THEN c ELSE [c EXCEPT !.p = @ + n, !.cbLen = @ - n, !.ate = @ + n]

\* pData += n, cbLen -= n, *pAte += n
Skip(c, n) == [c EXCEPT !.p = @ + n, !.cbLen = @ - n, !.ate = @ + n]

\* n bytes read one after the other, each as in Step; a copy longer than the
\* array itself (n taken as unsigned) runs off the heap
StepN(mem, c, n, oob) ==
    IF Faulted(c) \/ n = 0 THEN c
    ELSE IF n < 0 \/ n > Len(mem) THEN [c EXCEPT !.fault = "crash"]
    ELSE [c EXCEPT !.p = @ + n, !.cbLen = @ - n, !.ate = @ + n,
                   !.fault = IF (c.p < 0 \/ c.p + n > Len(mem)) /\ oob = -1
                             THEN "crash" ELSE @]

\* the n bytes at the cursor
Bytes(mem, c, n, oob) == [i \in 1..n |-> Peek(mem, c.p + i - 1, oob)]

(***************************************************************************)
(* Parser::ParseFixedLengthNumber, Parser::ReadFixedLengthNumber           *)
(***************************************************************************)
\* The numbers are 64 bits wide in the source and 32 bits wide here.  No file
\* of this model carries a number of more than 31 bits; one read at a wrong
\* offset that is wider is kept as the widest number of its sign.
Widest == 1073741824 + 1073741823

RECURSIVE FoldBytes(_, _, _)
FoldBytes(bs, i, acc) ==
    IF i > Len(bs) THEN acc
    ELSE FoldBytes(bs, i + 1,
                   IF acc >= 8388608 THEN Widest
                   ELSE IF acc < -8388608 THEN -Widest
                   ELSE acc * 256 + bs[i])

\* *r = *r * 0x100 + data[pos + i], then *r -= pow(2, 8 * length): the same
\* number as folding from the first byte taken as negative
ParseFixedLengthNumber(data, _signed) ==
    IF _signed /\ Len(data) > 0 /\ data[1] >= 128
    THEN FoldBytes(data, 2, data[1] - 256)
    ELSE FoldBytes(data, 1, 0)

\* the local array buf[8] overflows when length > 8
ReadFixedLengthNumber(mem, c, length, _signed, oob) ==
    LET c1 == StepN(mem, c, length, oob)
    IN  IF Faulted(c1) THEN [c |-> c1, num |-> 0]
        ELSE IF UGt(length, 8) THEN [c |-> [c1 EXCEPT !.fault = "crash"], num |-> 0]
        ELSE [c |-> c1,
              num |-> ParseFixedLengthNumber(Bytes(mem, c, length, oob), _signed)]

(***************************************************************************)
(* Parser::GetMajorBitNumber: the loop never ends when n is 0.             *)
(***************************************************************************)
\* GetMajorBitNumber that returns n where n & ~i is due
GetMajorBitNumberUncleared(n) ==
    IF n = 0 THEN [bitNum |-> 0, clearedNum |-> 0, hang |-> TRUE]
    ELSE IF n < 0 THEN [bitNum |-> 0, clearedNum |-> 0, hang |-> FALSE]
    ELSE [bitNum |-> CHOOSE k \in 0..7 : n >= Pow2(7 - k) /\ n < Pow2(8 - k),
          clearedNum |-> n, hang |-> FALSE]

GetMajorBitNumber(n) ==
    IF n = 0 THEN [bitNum |-> 0, clearedNum |-> 0, hang |-> TRUE]
    \* no byte was read: the caller has faulted
    ELSE IF n < 0 THEN [bitNum |-> 0, clearedNum |-> 0, hang |-> FALSE]
    ELSE LET r == CHOOSE k \in 0..7 : n >= Pow2(7 - k) /\ n < Pow2(8 - k)
         IN  [bitNum |-> r, clearedNum |-> n - Pow2(7 - r), hang |-> FALSE]

(***************************************************************************)
(* Parser::ReadMatroskaNumber, Parser::ReadEbmlElementHeader               *)
(***************************************************************************)
RECURSIVE ReadCode(_, _, _, _, _)
ReadCode(mem, c, code, i, oob) ==
    IF i = 0 \/ Faulted(c) THEN [c |-> c, code |-> code]
    ELSE ReadCode(mem, Step(mem, c, oob),
                  Mul256Add(code, Peek(mem, c.p, oob)), i - 1, oob)

\* code == pow(2, 7 * bitNum + 7) - 1, for a DWORD code
IsAllOnes(code, bitNum) == bitNum <= 3 /\ code = Pow2(7 * bitNum + 7) - 1

\* code -= pow(2, 7 * bitNum + 7) - 1, for a DWORD code: the difference is a
\* double, and its conversion back to DWORD is undefined when it is negative;
\* neg is what the build makes of it, its low 32 bits ("wrap") or 0 ("zero").
\* From 5 bytes on the power is a multiple of 2^32 and above every DWORD.
SignedCode(code, bitNum, neg) ==
    IF bitNum <= 3 /\ code >= Pow2(7 * bitNum + 7) - 1
    THEN code - (Pow2(7 * bitNum + 7) - 1)
    ELSE IF neg = "zero" THEN 0
    ELSE IF bitNum <= 3 /\ code >= 0 THEN code - (Pow2(7 * bitNum + 7) - 1)
    ELSE IF code = 2147483647 THEN -2147483647 - 1
    ELSE code + 1

\* what follows the first byte b0 in ReadMatroskaNumber and in
\* ParseMatroskaNumber, the cursor c1 being past b0
MatroskaNumberFrom(mem, c1, b0, unmodified, _signed, oob, neg) ==
    Only([numResult \in {GetMajorBitNumber(b0)} |->
        IF Faulted(c1) THEN [c |-> c1, id |-> 0, length |-> 0]
        ELSE IF numResult.hang
        THEN [c |-> [c1 EXCEPT !.fault = "hang"], id |-> 0, length |-> 0]
        ELSE Only([rc \in {ReadCode(mem, c1,
                                    IF unmodified THEN b0 ELSE numResult.clearedNum,
                                    numResult.bitNum, oob)} |->
                 [c |-> rc.c,
                  id |-> IF Faulted(rc.c) THEN 0
                         ELSE IF _signed THEN SignedCode(rc.code, numResult.bitNum, neg)
                         ELSE IF IsAllOnes(rc.code, numResult.bitNum) THEN -1
                         ELSE rc.code,
                  length |-> numResult.bitNum + 1]])])

ReadMatroskaNumber(mem, c, unmodified, _signed, oob, neg) ==
    IF unmodified /\ _signed
    THEN [c |-> [c EXCEPT !.fault = "throw"], id |-> 0, length |-> 0]
    ELSE MatroskaNumberFrom(mem, Step(mem, c, oob), Peek(mem, c.p, oob),
                            unmodified, _signed, oob, neg)

\* the same without cbLen and pAte, and without the test of the arguments
ParseMatroskaNumber(mem, c, isSigned, unModified, oob, neg) ==
    MatroskaNumberFrom(mem, Step(mem, c, oob), Peek(mem, c.p, oob),
                       unModified, isSigned, oob, neg)

ReadEbmlElementHeader(mem, c, oob) ==
        Only([mresult1 \in { ReadMatroskaNumber(mem, c, TRUE, FALSE, oob, "wrap")} |->
        Only([mresult2 \in { ReadMatroskaNumber(mem, mresult1.c, FALSE, FALSE, oob, "wrap")} |->
        [c |-> mresult2.c, id |-> mresult1.id, elemsize |-> mresult2.id,
         headsize |-> mresult1.length + mresult2.length]])])


(***************************************************************************)
(* element_types_names: element id -> (type, name)                         *)
(***************************************************************************)
element_types_names ==
       (440786851 :> [type |-> MASTER, name |-> "EBML"])
    @@ (17030 :> [type |-> _UNSIGNED, name |-> "EBMLVersion"])
    @@ (17143 :> [type |-> _UNSIGNED, name |-> "EBMLReadVersion"])
    @@ (17138 :> [type |-> _UNSIGNED, name |-> "EBMLMaxIDLength"])
    @@ (17139 :> [type |-> _UNSIGNED, name |-> "EBMLMaxSizeLength"])
    @@ (17026 :> [type |-> TEXTA, name |-> "DocType"])
    @@ (17031 :> [type |-> _UNSIGNED, name |-> "DocTypeVersion"])
    @@ (17029 :> [type |-> _UNSIGNED, name |-> "DocTypeReadVersion"])
    @@ (236 :> [type |-> BINARY, name |-> "Void"])
    @@ (191 :> [type |-> BINARY, name |-> "CRC-32"])
    @@ (458458727 :> [type |-> MASTER, name |-> "SignatureSlot"])
    @@ (32394 :> [type |-> _UNSIGNED, name |-> "SignatureAlgo"])
    @@ (32410 :> [type |-> _UNSIGNED, name |-> "SignatureHash"])
    @@ (32421 :> [type |-> BINARY, name |-> "SignaturePublicKey"])
    @@ (32437 :> [type |-> BINARY, name |-> "Signature"])
    @@ (32347 :> [type |-> MASTER, name |-> "SignatureElements"])
    @@ (32379 :> [type |-> MASTER, name |-> "SignatureElementList"])
    @@ (25906 :> [type |-> BINARY, name |-> "SignedElement"])
    @@ (408125543 :> [type |-> JUST_GO_ON, name |-> "Segment"])
    @@ (290298740 :> [type |-> MASTER, name |-> "SeekHead"])
    @@ (19899 :> [type |-> MASTER, name |-> "Seek"])
    @@ (21419 :> [type |-> BINARY, name |-> "SeekID"])
    @@ (21420 :> [type |-> _UNSIGNED, name |-> "SeekPosition"])
    @@ (357149030 :> [type |-> MASTER, name |-> "Info"])
    @@ (29604 :> [type |-> BINARY, name |-> "SegmentUID"])
    @@ (29572 :> [type |-> TEXTU, name |-> "SegmentFilename"])
    @@ (3979555 :> [type |-> BINARY, name |-> "PrevUID"])
    @@ (3965867 :> [type |-> TEXTU, name |-> "PrevFilename"])
    @@ (4110627 :> [type |-> BINARY, name |-> "NextUID"])
    @@ (4096955 :> [type |-> TEXTU, name |-> "NextFilename"])
    @@ (17476 :> [type |-> BINARY, name |-> "SegmentFamily"])
    @@ (26916 :> [type |-> MASTER, name |-> "ChapterTranslate"])
    @@ (27132 :> [type |-> _UNSIGNED, name |-> "ChapterTranslateEditionUID"])
    @@ (27071 :> [type |-> _UNSIGNED, name |-> "ChapterTranslateCodec"])
    @@ (27045 :> [type |-> BINARY, name |-> "ChapterTranslateID"])
    @@ (2807729 :> [type |-> _UNSIGNED, name |-> "TimecodeScale"])
    @@ (17545 :> [type |-> _FLOAT, name |-> "Duration"])
    @@ (17505 :> [type |-> _DATE, name |-> "DateUTC"])
    @@ (31657 :> [type |-> TEXTU, name |-> "Title"])
    @@ (19840 :> [type |-> TEXTU, name |-> "MuxingApp"])
    @@ (22337 :> [type |-> TEXTU, name |-> "WritingApp"])
    @@ (524531317 :> [type |-> JUST_GO_ON, name |-> "Cluster"])
    @@ (231 :> [type |-> _UNSIGNED, name |-> "Timecode"])
    @@ (22612 :> [type |-> MASTER, name |-> "SilentTracks"])
    @@ (22743 :> [type |-> _UNSIGNED, name |-> "SilentTrackNumber"])
    @@ (167 :> [type |-> _UNSIGNED, name |-> "Position"])
    @@ (171 :> [type |-> _UNSIGNED, name |-> "PrevSize"])
    @@ (163 :> [type |-> BINARY, name |-> "SimpleBlock"])
    @@ (160 :> [type |-> MASTER, name |-> "BlockGroup"])
    @@ (161 :> [type |-> BINARY, name |-> "Block"])
    @@ (162 :> [type |-> BINARY, name |-> "BlockVirtual"])
    @@ (30113 :> [type |-> MASTER, name |-> "BlockAdditions"])
    @@ (166 :> [type |-> MASTER, name |-> "BlockMore"])
    @@ (238 :> [type |-> _UNSIGNED, name |-> "BlockAddID"])
    @@ (165 :> [type |-> BINARY, name |-> "BlockAdditional"])
    @@ (155 :> [type |-> _UNSIGNED, name |-> "BlockDuration"])
    @@ (250 :> [type |-> _UNSIGNED, name |-> "ReferencePriority"])
    @@ (251 :> [type |-> _SIGNED, name |-> "ReferenceBlock"])
    @@ (253 :> [type |-> _SIGNED, name |-> "ReferenceVirtual"])
    @@ (164 :> [type |-> BINARY, name |-> "CodecState"])
    @@ (142 :> [type |-> MASTER, name |-> "Slices"])
    @@ (232 :> [type |-> MASTER, name |-> "TimeSlice"])
    @@ (204 :> [type |-> _UNSIGNED, name |-> "LaceNumber"])
    @@ (205 :> [type |-> _UNSIGNED, name |-> "FrameNumber"])
    @@ (203 :> [type |-> _UNSIGNED, name |-> "BlockAdditionID"])
    @@ (206 :> [type |-> _UNSIGNED, name |-> "Delay"])
    @@ (207 :> [type |-> _UNSIGNED, name |-> "SliceDuration"])
    @@ (200 :> [type |-> MASTER, name |-> "ReferenceFrame"])
    @@ (201 :> [type |-> _UNSIGNED, name |-> "ReferenceOffset"])
    @@ (202 :> [type |-> _UNSIGNED, name |-> "ReferenceTimeCode"])
    @@ (175 :> [type |-> BINARY, name |-> "EncryptedBlock"])
    @@ (374648427 :> [type |-> MASTER, name |-> "Tracks"])
    @@ (174 :> [type |-> MASTER, name |-> "TrackEntry"])
    @@ (215 :> [type |-> _UNSIGNED, name |-> "TrackNumber"])
    @@ (29637 :> [type |-> _UNSIGNED, name |-> "TrackUID"])
    @@ (131 :> [type |-> _UNSIGNED, name |-> "TrackType"])
    @@ (185 :> [type |-> _UNSIGNED, name |-> "FlagEnabled"])
    @@ (136 :> [type |-> _UNSIGNED, name |-> "FlagDefault"])
    @@ (21930 :> [type |-> _UNSIGNED, name |-> "FlagForced"])
    @@ (156 :> [type |-> _UNSIGNED, name |-> "FlagLacing"])
    @@ (28135 :> [type |-> _UNSIGNED, name |-> "MinCache"])
    @@ (28152 :> [type |-> _UNSIGNED, name |-> "MaxCache"])
    @@ (2352003 :> [type |-> _UNSIGNED, name |-> "DefaultDuration"])
    @@ (2306383 :> [type |-> _FLOAT, name |-> "TrackTimecodeScale"])
    @@ (21375 :> [type |-> _SIGNED, name |-> "TrackOffset"])
    @@ (21998 :> [type |-> _UNSIGNED, name |-> "MaxBlockAdditionID"])
    @@ (21358 :> [type |-> TEXTU, name |-> "Name"])
    @@ (2274716 :> [type |-> TEXTA, name |-> "Language"])
    @@ (134 :> [type |-> TEXTA, name |-> "CodecID"])
    @@ (25506 :> [type |-> BINARY, name |-> "CodecPrivate"])
    @@ (2459272 :> [type |-> TEXTU, name |-> "CodecName"])
    @@ (29766 :> [type |-> _UNSIGNED, name |-> "AttachmentLink"])
    @@ (3839639 :> [type |-> TEXTU, name |-> "CodecSettings"])
    @@ (3883072 :> [type |-> TEXTA, name |-> "CodecInfoURL"])
    @@ (2536000 :> [type |-> TEXTA, name |-> "CodecDownloadURL"])
    @@ (170 :> [type |-> _UNSIGNED, name |-> "CodecDecodeAll"])
    @@ (28587 :> [type |-> _UNSIGNED, name |-> "TrackOverlay"])
    @@ (26148 :> [type |-> MASTER, name |-> "TrackTranslate"])
    @@ (26364 :> [type |-> _UNSIGNED, name |-> "TrackTranslateEditionUID"])
    @@ (26303 :> [type |-> _UNSIGNED, name |-> "TrackTranslateCodec"])
    @@ (26277 :> [type |-> BINARY, name |-> "TrackTranslateTrackID"])
    @@ (224 :> [type |-> MASTER, name |-> "Video"])
    @@ (154 :> [type |-> _UNSIGNED, name |-> "FlagInterlaced"])
    @@ (21432 :> [type |-> _UNSIGNED, name |-> "StereoMode"])
    @@ (21433 :> [type |-> _UNSIGNED, name |-> "OldStereoMode"])
    @@ (176 :> [type |-> _UNSIGNED, name |-> "PixelWidth"])
    @@ (186 :> [type |-> _UNSIGNED, name |-> "PixelHeight"])
    @@ (21674 :> [type |-> _UNSIGNED, name |-> "PixelCropBottom"])
    @@ (21691 :> [type |-> _UNSIGNED, name |-> "PixelCropTop"])
    @@ (21708 :> [type |-> _UNSIGNED, name |-> "PixelCropLeft"])
    @@ (21725 :> [type |-> _UNSIGNED, name |-> "PixelCropRight"])
    @@ (21680 :> [type |-> _UNSIGNED, name |-> "DisplayWidth"])
    @@ (21690 :> [type |-> _UNSIGNED, name |-> "DisplayHeight"])
    @@ (21682 :> [type |-> _UNSIGNED, name |-> "DisplayUnit"])
    @@ (21683 :> [type |-> _UNSIGNED, name |-> "AspectRatioType"])
    @@ (3061028 :> [type |-> BINARY, name |-> "ColourSpace"])
    @@ (3126563 :> [type |-> _FLOAT, name |-> "GammaValue"])
    @@ (2327523 :> [type |-> _FLOAT, name |-> "FrameRate"])
    @@ (225 :> [type |-> MASTER, name |-> "Audio"])
    @@ (181 :> [type |-> _FLOAT, name |-> "SamplingFrequency"])
    @@ (30901 :> [type |-> _FLOAT, name |-> "OutputSamplingFrequency"])
    @@ (159 :> [type |-> _UNSIGNED, name |-> "Channels"])
    @@ (32123 :> [type |-> BINARY, name |-> "ChannelPositions"])
    @@ (25188 :> [type |-> _UNSIGNED, name |-> "BitDepth"])
    @@ (226 :> [type |-> MASTER, name |-> "TrackOperation"])
    @@ (227 :> [type |-> MASTER, name |-> "TrackCombinePlanes"])
    @@ (228 :> [type |-> MASTER, name |-> "TrackPlane"])
    @@ (229 :> [type |-> _UNSIGNED, name |-> "TrackPlaneUID"])
    @@ (230 :> [type |-> _UNSIGNED, name |-> "TrackPlaneType"])
    @@ (233 :> [type |-> MASTER, name |-> "TrackJoinBlocks"])
    @@ (237 :> [type |-> _UNSIGNED, name |-> "TrackJoinUID"])
    @@ (192 :> [type |-> _UNSIGNED, name |-> "TrickTrackUID"])
    @@ (193 :> [type |-> BINARY, name |-> "TrickTrackSegmentUID"])
    @@ (198 :> [type |-> _UNSIGNED, name |-> "TrickTrackFlag"])
    @@ (199 :> [type |-> _UNSIGNED, name |-> "TrickMasterTrackUID"])
    @@ (196 :> [type |-> BINARY, name |-> "TrickMasterTrackSegmentUID"])
    @@ (28032 :> [type |-> MASTER, name |-> "ContentEncodings"])
    @@ (25152 :> [type |-> MASTER, name |-> "ContentEncoding"])
    @@ (20529 :> [type |-> _UNSIGNED, name |-> "ContentEncodingOrder"])
    @@ (20530 :> [type |-> _UNSIGNED, name |-> "ContentEncodingScope"])
    @@ (20531 :> [type |-> _UNSIGNED, name |-> "ContentEncodingType"])
    @@ (20532 :> [type |-> MASTER, name |-> "ContentCompression"])
    @@ (16980 :> [type |-> _UNSIGNED, name |-> "ContentCompAlgo"])
    @@ (16981 :> [type |-> BINARY, name |-> "ContentCompSettings"])
    @@ (20533 :> [type |-> MASTER, name |-> "ContentEncryption"])
    @@ (18401 :> [type |-> _UNSIGNED, name |-> "ContentEncAlgo"])
    @@ (18402 :> [type |-> BINARY, name |-> "ContentEncKeyID"])
    @@ (18403 :> [type |-> BINARY, name |-> "ContentSignature"])
    @@ (18404 :> [type |-> BINARY, name |-> "ContentSigKeyID"])
    @@ (18405 :> [type |-> _UNSIGNED, name |-> "ContentSigAlgo"])
    @@ (18406 :> [type |-> _UNSIGNED, name |-> "ContentSigHashAlgo"])
    @@ (475249515 :> [type |-> MASTER, name |-> "Cues"])
    @@ (187 :> [type |-> MASTER, name |-> "CuePoint"])
    @@ (179 :> [type |-> _UNSIGNED, name |-> "CueTime"])
    @@ (183 :> [type |-> MASTER, name |-> "CueTrackPositions"])
    @@ (247 :> [type |-> _UNSIGNED, name |-> "CueTrack"])
    @@ (241 :> [type |-> _UNSIGNED, name |-> "CueClusterPosition"])
    @@ (21368 :> [type |-> _UNSIGNED, name |-> "CueBlockNumber"])
    @@ (234 :> [type |-> _UNSIGNED, name |-> "CueCodecState"])
    @@ (219 :> [type |-> MASTER, name |-> "CueReference"])
    @@ (150 :> [type |-> _UNSIGNED, name |-> "CueRefTime"])
    @@ (151 :> [type |-> _UNSIGNED, name |-> "CueRefCluster"])
    @@ (21343 :> [type |-> _UNSIGNED, name |-> "CueRefNumber"])
    @@ (235 :> [type |-> _UNSIGNED, name |-> "CueRefCodecState"])
    @@ (423732329 :> [type |-> MASTER, name |-> "Attachments"])
    @@ (24999 :> [type |-> MASTER, name |-> "AttachedFile"])
    @@ (18046 :> [type |-> TEXTU, name |-> "FileDescription"])
    @@ (18030 :> [type |-> TEXTU, name |-> "FileName"])
    @@ (18016 :> [type |-> TEXTA, name |-> "FileMimeType"])
    @@ (18012 :> [type |-> BINARY, name |-> "FileData"])
    @@ (18094 :> [type |-> _UNSIGNED, name |-> "FileUID"])
    @@ (18037 :> [type |-> BINARY, name |-> "FileReferral"])
    @@ (18017 :> [type |-> _UNSIGNED, name |-> "FileUsedStartTime"])
    @@ (18018 :> [type |-> _UNSIGNED, name |-> "FileUsedEndTime"])
    @@ (272869232 :> [type |-> MASTER, name |-> "Chapters"])
    @@ (17849 :> [type |-> MASTER, name |-> "EditionEntry"])
    @@ (17852 :> [type |-> _UNSIGNED, name |-> "EditionUID"])
    @@ (17853 :> [type |-> _UNSIGNED, name |-> "EditionFlagHidden"])
    @@ (17883 :> [type |-> _UNSIGNED, name |-> "EditionFlagDefault"])
    @@ (17885 :> [type |-> _UNSIGNED, name |-> "EditionFlagOrdered"])
    @@ (182 :> [type |-> MASTER, name |-> "ChapterAtom"])
    @@ (29636 :> [type |-> _UNSIGNED, name |-> "ChapterUID"])
    @@ (145 :> [type |-> _UNSIGNED, name |-> "ChapterTimeStart"])
    @@ (146 :> [type |-> _UNSIGNED, name |-> "ChapterTimeEnd"])
    @@ (152 :> [type |-> _UNSIGNED, name |-> "ChapterFlagHidden"])
    @@ (17816 :> [type |-> _UNSIGNED, name |-> "ChapterFlagEnabled"])
    @@ (28263 :> [type |-> BINARY, name |-> "ChapterSegmentUID"])
    @@ (28348 :> [type |-> _UNSIGNED, name |-> "ChapterSegmentEditionUID"])
    @@ (25539 :> [type |-> _UNSIGNED, name |-> "ChapterPhysicalEquiv"])
    @@ (143 :> [type |-> MASTER, name |-> "ChapterTrack"])
    @@ (137 :> [type |-> _UNSIGNED, name |-> "ChapterTrackNumber"])
    @@ (128 :> [type |-> MASTER, name |-> "ChapterDisplay"])
    @@ (133 :> [type |-> TEXTU, name |-> "ChapString"])
    @@ (17276 :> [type |-> TEXTA, name |-> "ChapLanguage"])
    @@ (17278 :> [type |-> TEXTA, name |-> "ChapCountry"])
    @@ (26948 :> [type |-> MASTER, name |-> "ChapProcess"])
    @@ (26965 :> [type |-> _UNSIGNED, name |-> "ChapProcessCodecID"])
    @@ (17677 :> [type |-> BINARY, name |-> "ChapProcessPrivate"])
    @@ (26897 :> [type |-> MASTER, name |-> "ChapProcessCommand"])
    @@ (26914 :> [type |-> _UNSIGNED, name |-> "ChapProcessTime"])
    @@ (26931 :> [type |-> BINARY, name |-> "ChapProcessData"])
    @@ (307544935 :> [type |-> MASTER, name |-> "Tags"])
    @@ (29555 :> [type |-> MASTER, name |-> "Tag"])
    @@ (25536 :> [type |-> MASTER, name |-> "Targets"])
    @@ (26826 :> [type |-> _UNSIGNED, name |-> "TargetTypeValue"])
    @@ (25546 :> [type |-> TEXTA, name |-> "TargetType"])
    @@ (25541 :> [type |-> _UNSIGNED, name |-> "TagTrackUID"])
    @@ (25545 :> [type |-> _UNSIGNED, name |-> "TagEditionUID"])
    @@ (25540 :> [type |-> _UNSIGNED, name |-> "TagChapterUID"])
    @@ (25542 :> [type |-> _UNSIGNED, name |-> "TagAttachmentUID"])
    @@ (26568 :> [type |-> MASTER, name |-> "SimpleTag"])
    @@ (17827 :> [type |-> TEXTU, name |-> "TagName"])
    @@ (17530 :> [type |-> TEXTA, name |-> "TagLanguage"])
    @@ (17540 :> [type |-> _UNSIGNED, name |-> "TagDefault"])
    @@ (17543 :> [type |-> TEXTU, name |-> "TagString"])
    @@ (17541 :> [type |-> BINARY, name |-> "TagBinary"])

\* the text a char* points at: the bytes up to the first NUL
RECURSIVE CStr(_)
CStr(bs) == IF bs = <<>> \/ Head(bs) = 0 THEN <<>> ELSE <<Head(bs)>> \o CStr(Tail(bs))

Reverse(bs) == [i \in 1..Len(bs) |-> bs[Len(bs) + 1 - i]]

NoElement == [name |-> NullStr, type |-> 0, data |-> 0, length |-> 0,
              children |-> <<>>]

(***************************************************************************)
(* Parser::ReadSimpleElement2 and Parser::ReadEbmlElementTree2.  Both      *)
(* return the advanced cursor and the element read; null says that the     *)
(* function returned a null pointer.                                       *)
(***************************************************************************)
RECURSIVE ReadSimpleElement2(_, _, _, _, _)
RECURSIVE ReadEbmlElementTree2(_, _, _, _)
RECURSIVE TreeLoop(_, _, _, _, _)

ReadSimpleElement2(mem, c, type, size, oob) ==
    IF size = 0 THEN [c |-> c, null |-> TRUE, el |-> NoElement]
    ELSE IF type = _UNSIGNED \/ type = _SIGNED
    THEN LET d == ReadFixedLengthNumber(mem, c, size, type # _UNSIGNED, oob)
         IN  [c |-> d.c, null |-> FALSE,
              el |-> [NoElement EXCEPT !.type = type, !.data = d.num]]
    ELSE IF type = TEXTA \/ type = TEXTU
    THEN LET c1 == StepN(mem, c, size, oob)
         IN  [c |-> c1, null |-> FALSE,
              el |-> [NoElement EXCEPT !.type = type,
                         !.data = IF Faulted(c1) THEN <<>>
                                  ELSE CStr(Bytes(mem, c, size, oob))]]
    ELSE IF type = MASTER
    THEN LET t == ReadEbmlElementTree2(mem, c, size, oob)
         IN  [c |-> t.c, null |-> FALSE, el |-> t.el]
    ELSE IF type = _DATE
    THEN LET d == ReadFixedLengthNumber(mem, c, size, TRUE, oob)
         IN  [c |-> d.c, null |-> FALSE, el |-> [NoElement EXCEPT !.type = type]]
    ELSE IF type = _FLOAT
    THEN IF size = 4 \/ size = 8
         THEN LET c1 == StepN(mem, c, size, oob)
              IN  [c |-> c1, null |-> FALSE,
                   el |-> [NoElement EXCEPT !.type = type,
                              !.data = IF Faulted(c1) THEN <<>>
                                       ELSE Reverse(Bytes(mem, c, size, oob))]]
         ELSE LET d == ReadFixedLengthNumber(mem, c, size, FALSE, oob)
              IN  [c |-> d.c, null |-> TRUE, el |-> NoElement]
    ELSE LET c1 == StepN(mem, c, size, oob)
         IN  [c |-> c1, null |-> FALSE,
              el |-> [NoElement EXCEPT !.type = type, !.length = size,
                         !.data = IF Faulted(c1) THEN <<>>
                                  ELSE Bytes(mem, c, size, oob)]]

\* one pass of the loop "while (total_size > 0)"
TreeLoop(mem, c, total_size, children, oob) ==
    IF total_size = 0 \/ Faulted(c) THEN [c |-> c, children |-> children]
    ELSE
        Only([hresult \in { ReadEbmlElementHeader(mem, c, oob)} |->   
    IF Faulted(hresult.c) THEN [c |-> hresult.c, children |-> children]
    ELSE IF hresult.elemsize = -1
    THEN [c |-> Skip(hresult.c, total_size), children |-> children]
    ELSE
    LET c1 == IF UGt(hresult.elemsize, total_size)
              THEN Skip(hresult.c, total_size) ELSE hresult.c IN
        Only([known \in { hresult.id \in DOMAIN element_types_names} |->
        Only([type \in { IF known THEN element_types_names[hresult.id].type ELSE BINARY} |->
        Only([name \in { IF known THEN element_types_names[hresult.id].name ELSE NullStr} |->
        LET rest == total_size - (hresult.elemsize + hresult.headsize)
    IN  IF type = MASTER
        THEN LET m == ReadEbmlElementTree2(mem, c1, hresult.elemsize, oob)
             IN  TreeLoop(mem, m.c, rest,
                          Append(children, [m.el EXCEPT !.name = name, !.type = type]),
                          oob)
        ELSE     Only([s \in { ReadSimpleElement2(mem, c1, type, hresult.elemsize, oob)} |->
                 IF Faulted(s.c) THEN [c |-> s.c, children |-> children]
                 ELSE IF s.null
                 THEN [c |-> [s.c EXCEPT !.fault = "crash"], children |-> children]
                 ELSE TreeLoop(mem, s.c, rest,
                               Append(children, [s.el EXCEPT !.name = name]), oob)])])])])])

ReadEbmlElementTree2(mem, c, total_size, oob) ==
        Only([r \in { TreeLoop(mem, c, total_size, <<>>, oob)} |->
        [c |-> r.c, el |-> [NoElement EXCEPT !.type = MASTER, !.children = r.children]]])


(***************************************************************************)
(* The parser's data.  MKVMasterData and the records it owns; a pointer    *)
(* member that is NULL is the string NullStr (a text) or the record        *)
(* NoSegInfo (SegInfo).                                                    *)
(***************************************************************************)
NoSegInfo == [null |-> TRUE, TimecodeScale |-> 0, Duration |-> <<>>]

NewMasterData ==
    [SegmentPosition |-> 0, SeekHead |-> <<>>, SegInfo |-> NoSegInfo,
     Tracks |-> <<>>, Cues |-> <<>>]

\* Parser::Parser; the members the constructor does not name are zero.
\* Three fields are not members: wrote (the frames the call in progress has
\* put into the ring), blockRel (the two bytes of the relative timecode of the
\* last block, as an unsigned number) and blockNth (the frames of that block
\* delivered so far).
NewParser ==
    [m_framesReady |-> FALSE, m_bEOS |-> FALSE,
     m_isFinishedParsingMaster |-> FALSE, m_jumpFlag |-> FALSE, m_jumpTo |-> 0,
     m_insertedHeaderYet |-> FALSE, m_isCurrentKeyFrame |-> FALSE,
     m_currentBlockTimeCode |-> 0, m_currentTimeStamp |-> 0,
     m_currentFrameSize |-> 0, m_currentStream |-> 0,
     m_circularBuffer |-> [i \in 1..m_cirBufferLength |-> 0],
     pCircRead |-> 0, pCircWrite |-> 0, m_frameCount |-> 0,
     m_startPosition |-> 0,
     m_masterData |-> NewMasterData,
     wrote |-> <<>>, blockRel |-> 0, blockNth |-> 0, null |-> FALSE]

\* m_parser before OpenAsync and after Shutdown
NullParser == [NewParser EXCEPT !.null = TRUE]

SetMax(S) == CHOOSE x \in S : \A y \in S : y <= x

\* the data of the last child of the given type and name ("*": any name)
LastData(children, type, name, dflt) ==
    LET idx == {i \in 1..Len(children) :
                   children[i].type = type
                   /\ (name = "*" \/ children[i].name = name)}
    IN  IF idx = {} THEN dflt ELSE children[SetMax(idx)].data

HasChild(children, type) == \E i \in 1..Len(children) : children[i].type = type

\* bit test on a byte: b & mask # 0 for a mask of one bit
Bit(b, mask) == (b \div mask) % 2 = 1

\* a / b as C computes it for int operands, b > 0
TruncDiv(a, b) == IF a >= 0 THEN a \div b ELSE -((-a) \div b)

(***************************************************************************)
(* Parser::ParseBytes, the branch "SeekHead": one Seek per child.  The key *)
(* of the SeekID lookup is built from the first four bytes of the binary   *)
(* child, gated by the size of the SeekHead element itself.                *)
(***************************************************************************)
SeekIdKey(arr, size, oob) ==
    LET b(i) == IF i <= Len(arr) THEN arr[i] ELSE IF oob = -1 THEN 0 ELSE oob
    IN  Mul256Add(Mul256Add(Mul256Add(b(1), IF size > 1 THEN b(2) ELSE 0),
                            IF size > 2 THEN b(3) ELSE 0),
                  IF size > 3 THEN b(4) ELSE 0)

\* ok is FALSE when building the entry dereferences a bad pointer
SeekOf(element, size, oob) ==
    LET bins == {j \in 1..Len(element.children) : element.children[j].type = BINARY}
        keys == {SeekIdKey(element.children[j].data, size, oob) : j \in bins}
        short == \E j \in bins :
                    /\ oob = -1
                    /\ \/ Len(element.children[j].data) < 1
                       \/ size > 1 /\ Len(element.children[j].data) < 2
                       \/ size > 2 /\ Len(element.children[j].data) < 3
                       \/ size > 3 /\ Len(element.children[j].data) < 4
        lastKey == SeekIdKey(element.children[SetMax(bins)].data, size, oob)
    IN  [ok |-> element.type = MASTER /\ ~short
                /\ \A k \in keys : k \in DOMAIN element_types_names,
         seek |-> [elemID |-> IF bins = {} \/ lastKey \notin DOMAIN element_types_names
                              THEN NullStr
                              ELSE element_types_names[lastKey].name,
                   SeekPosition |-> LastData(element.children, _UNSIGNED, "*", 0)]]

(***************************************************************************)
(* Parser::ParseBytes, the branch "Info"                                   *)
(***************************************************************************)
SegInfoOf(masterElement) ==
    [null |-> FALSE,
     TimecodeScale |-> LastData(masterElement.children, _UNSIGNED, "*", 0),
     Duration |-> LastData(masterElement.children, _FLOAT, "Duration", <<>>)]

\* memcpy into SegmentUID[16]
SegInfoOk(masterElement) ==
    \A i \in 1..Len(masterElement.children) :
        masterElement.children[i].type = BINARY =>
            masterElement.children[i].length <= 16

(***************************************************************************)
(* Parser::ParseBytes, the branch "Tracks": one TrackData per child        *)
(***************************************************************************)
TrackOf(element) ==
    LET kids == element.children
    IN  [ok |-> /\ element.type = MASTER
                /\ \A j \in 1..Len(kids) :
                      kids[j].type = BINARY => kids[j].name # NullStr,
         track |-> [TrackNumber |-> LastData(kids, _UNSIGNED, "TrackNumber", 0),
                    TrackType |-> LastData(kids, _UNSIGNED, "TrackType", 0),
                    DefaultDuration |-> LastData(kids, _UNSIGNED, "DefaultDuration", 0),
                    CodecID |-> LastData(kids, TEXTA, "CodecID", NullStr),
                    hasVideoAudio |-> HasChild(kids, MASTER)]]

(***************************************************************************)
(* Parser::ParseBytes, the branch "Cues": one CuePoint per child           *)
(***************************************************************************)
CueTrackPositionOf(selement) ==
    [CueTrack |-> LastData(selement.children, _UNSIGNED, "CueTrack", 0),
     CueClusterPosition |->
         LastData(selement.children, _UNSIGNED, "CueClusterPosition", 0)]

CuePointOf(element) ==
    LET kids == element.children
        masters == {j \in 1..Len(kids) : kids[j].type = MASTER}
    IN  [ok |-> element.type = MASTER,
         cue |-> [CueTime |-> LastData(kids, _UNSIGNED, "*", 0),
                  CueTrackPositions |->
                      [n \in 1..Cardinality(masters) |->
                          CueTrackPositionOf(
                              kids[CHOOSE j \in masters :
                                      Cardinality({k \in masters : k <= j}) = n])]]]


(***************************************************************************)
(* The frame ring: *pCircWrite = fl; m_frameCount++; pCircWrite++ with     *)
(* wrap-around.  m_frameCount is a byte.  wrote lists the frames written   *)
(* by the call in progress, each with its size.                            *)
(***************************************************************************)
PushFrame(P, fl) ==
    [P EXCEPT !.m_circularBuffer[P.pCircWrite + 1] = fl,
              !.m_frameCount = (@ + 1) % 256,
              !.pCircWrite = IF @ + 1 = m_cirBufferLength THEN 0 ELSE @ + 1,
              !.wrote = Append(@, [size |-> fl])]

RECURSIVE PushFrames(_, _, _)
PushFrames(P, fl, n) == IF n <= 0 THEN P ELSE PushFrames(PushFrame(P, fl), fl, n - 1)

Throw(c) == [c EXCEPT !.fault = "throw"]

Crash(c) == [c EXCEPT !.fault = "crash"]

(***************************************************************************)
(* Parser::ParseBytes, the branch "SimpleBlock", EBML lacing.              *)
(***************************************************************************)
\* the size of the first laced frame
FirstLaceSize(mem, c, oob) ==
    LET t0 == Peek(mem, c.p, oob)
        c1 == Step(mem, c, oob)
        t1 == Peek(mem, c1.p, oob)
        c2 == Step(mem, c1, oob)
        t2 == Peek(mem, c2.p, oob)
        c3 == Step(mem, c2, oob)
    IN  IF Faulted(c1) THEN [c |-> c1, framelength |-> 0]
        ELSE IF Bit(t0, 128) THEN [c |-> c1, framelength |-> 0 - 65536]
        ELSE IF Faulted(c2) THEN [c |-> c2, framelength |-> 0]
        ELSE IF Bit(t0, 64) THEN [c |-> c2, framelength |-> (t0 - 64) * 256 + t1]
        ELSE IF Faulted(c3) THEN [c |-> c3, framelength |-> 0]
        ELSE IF Bit(t0, 32) \/ Bit(t0, 16) \/ Bit(t0, 2)
        THEN [c |-> c3, framelength |-> (t0 - 50) * 65536 + t1 * 256 + t2]
        ELSE [c |-> Throw(c3), framelength |-> 0]

\* the size of a later laced frame, from the size before it
NextLaceSize(mem, c, lastFramelength, oob) ==
    LET t0 == Peek(mem, c.p, oob)
        c1 == Step(mem, c, oob)
        t1 == Peek(mem, c1.p, oob)
        c2 == Step(mem, c1, oob)
        t2 == Peek(mem, c2.p, oob)
        c3 == Step(mem, c2, oob)
    IN  IF Faulted(c1) THEN [c |-> c1, framelength |-> 0]
        ELSE IF Bit(t0, 128)
        THEN [c |-> c1, framelength |-> lastFramelength + ((t0 - 128) - 63)]
        ELSE IF Faulted(c2) THEN [c |-> c2, framelength |-> 0]
        ELSE IF Bit(t0, 64)
        THEN [c |-> c2,
              framelength |-> lastFramelength + (((t0 - 64) * 256 + t1) - 8191)]
        ELSE IF Faulted(c3) THEN [c |-> c3, framelength |-> 0]
        ELSE IF Bit(t0, 32) \/ Bit(t0, 16) \/ Bit(t0, 2)
        THEN [c |-> c3,
              framelength |-> lastFramelength
                              + (((t0 - 50) * 65536 + t1 * 256 + t2) - 1048575)]
        ELSE [c |-> Throw(c3), framelength |-> 0]

\* for (int i = 1; i < numframes - 1; ++i)
RECURSIVE LaceLoop(_, _, _, _, _, _, _)
LaceLoop(mem, c, P, i, numframes, framelength, oob) ==
    IF i >= numframes - 1 THEN [c |-> c, P |-> P, framelength |-> framelength]
    ELSE     Only([n \in { NextLaceSize(mem, c, framelength, oob)} |->
             IF Faulted(n.c) THEN [c |-> n.c, P |-> P, framelength |-> framelength]
             ELSE Only([P1 \in {PushFrame(P, n.framelength)} |->
                  LaceLoop(mem, n.c, P1, i + 1, numframes, n.framelength, oob)])])

EbmlLacing(mem, c, P, numframes, oob) ==
        Only([f \in { FirstLaceSize(mem, c, oob)} |->
        IF Faulted(f.c) THEN [c |-> f.c, P |-> P]
        ELSE     Only([l \in { LaceLoop(mem, f.c, PushFrame(P, f.framelength), 1, numframes,
                               f.framelength, oob)} |->
                 IF Faulted(l.c) THEN [c |-> l.c, P |-> l.P]
                 ELSE [c |-> l.c, P |-> PushFrame(l.P, l.framelength)]])])

\* fixed-size lacing
FixedLacing(c, P, size, numframes) ==
    IF numframes = 0 THEN [c |-> Crash(c), P |-> P]
    ELSE IF numframes > m_cirBufferLength THEN [c |-> Throw(c), P |-> P]
    ELSE [c |-> c, P |-> PushFrames(P, TruncDiv(size - 5, numframes), numframes)]

(***************************************************************************)
(* Parser::ParseBytes, the branch "SimpleBlock".                           *)
(***************************************************************************)
SimpleBlock(mem, c, P, size, oob) ==
    LET b0 == Peek(mem, c.p, oob)
        c1 == Step(mem, c, oob)
        t0 == Peek(mem, c1.p, oob)
        c2 == Step(mem, c1, oob)
        t1 == Peek(mem, c2.p, oob)
        c3 == Step(mem, c2, oob)
        flags == Peek(mem, c3.p, oob)
        c4 == Step(mem, c3, oob)
    IN  IF Faulted(c4) THEN [c |-> c4, P |-> P]
        ELSE
            Only([timeCode \in { IF Bit(t0, 128) THEN t0 * 256 + t1 - 65536 ELSE t0 * 256 + t1} |->
            LET laceflags == ((flags \div 2) % 4) * 2 IN
            Only([P1 \in { [P EXCEPT !.blockRel = t0 * 256 + t1, !.blockNth = 0,
                            !.m_currentStream = b0 - 128,
                            !.m_isCurrentKeyFrame = Bit(flags, 128),
                            !.m_currentTimeStamp = P.m_currentBlockTimeCode + timeCode]} |->
            IF laceflags = 0
            THEN [c |-> c4, P |-> [PushFrame(P1, size - 4) EXCEPT !.m_framesReady = TRUE]]
            ELSE
            LET c5 == Step(mem, c4, oob)
                numframes == (Peek(mem, c4.p, oob) + 1) % 256 IN
                Only([r \in { IF laceflags = 2 THEN [c |-> Throw(c5), P |-> P1]
                     ELSE IF laceflags = 6 THEN EbmlLacing(mem, c5, P1, numframes, oob)
                     ELSE FixedLacing(c5, P1, size, numframes)} |->
                IF Faulted(c5) THEN [c |-> c5, P |-> P1]
                ELSE IF Faulted(r.c) THEN r
                ELSE [c |-> r.c, P |-> [r.P EXCEPT !.m_framesReady = TRUE]]])])])


(***************************************************************************)
(* Parser::ParseBytes.  The result is the return value, the cursor (its    *)
(* ate is *pAte) and the parser's members.                                 *)
(***************************************************************************)
\* the Cluster branch: the SeekHead entries whose element is still missing
SeekMissing(md, i) ==
    LET id == md.SeekHead[i].elemID
    IN  \/ id = "Info" /\ md.SegInfo.null
        \/ id = "Tracks" /\ Len(md.Tracks) = 0
        \/ id = "Cues" /\ Len(md.Cues) = 0

ClusterHeader(c, P) ==
    LET md == P.m_masterData
        stop == {i \in 1..Len(md.SeekHead) :
                    md.SeekHead[i].elemID = NullStr \/ SeekMissing(md, i)}
        i0 == CHOOSE i \in stop : \A j \in stop : i <= j
    IN  IF P.m_isFinishedParsingMaster THEN [done |-> FALSE, c |-> c, P |-> P]
        ELSE IF stop = {}
        THEN [done |-> FALSE, c |-> c,
              P |-> [P EXCEPT !.m_isFinishedParsingMaster = TRUE]]
        ELSE IF md.SeekHead[i0].elemID = NullStr
        THEN [done |-> TRUE, c |-> Crash(c), P |-> P]
        ELSE [done |-> TRUE, c |-> c,
              P |-> [P EXCEPT !.m_jumpTo = md.SeekHead[i0].SeekPosition
                                           + md.SegmentPosition,
                              !.m_jumpFlag = TRUE]]

\* the children of a master element turned into records by Of; ok is FALSE
\* when one of them cannot be built
Built(children, Of(_)) ==
    [ok |-> \A i \in 1..Len(children) : Of(children[i]).ok,
     items |-> [i \in 1..Len(children) |-> Of(children[i])]]

\* the Segment recorded at the first byte of the window
SegmentReadAtWindow(c, P) == [P EXCEPT !.m_masterData.SegmentPosition = 0]

\* m_masterData->SegmentPosition = *pAte, behind the header of the Segment
SegmentRead(c, P) == [P EXCEPT !.m_masterData.SegmentPosition = c.ate]

\* the chain "if (name == ...)" for an element whose data is in the buffer
Interpret(mem, c, P, name, type, size, masterElement, oob) ==
    LET md == P.m_masterData IN
    IF name = "Segment"
    THEN [brk |-> FALSE, c |-> c, P |-> SegmentRead(c, P)]
    ELSE IF name = "SeekHead"
    THEN LET SeekOfChild(e) == SeekOf(e, size, oob) IN
             Only([b \in { Built(masterElement.children, SeekOfChild)} |->
             IF ~b.ok THEN [brk |-> TRUE, c |-> Crash(c), P |-> P]
             ELSE [brk |-> FALSE, c |-> c,
                   P |-> [P EXCEPT !.m_masterData.SeekHead =
                             @ \o [i \in 1..Len(b.items) |-> b.items[i].seek]]]])
    ELSE IF name = "Info"
    THEN IF ~SegInfoOk(masterElement) /\ oob = -1
         THEN [brk |-> TRUE, c |-> Crash(c), P |-> P]
         ELSE [brk |-> FALSE, c |-> c,
               P |-> [P EXCEPT !.m_masterData.SegInfo = SegInfoOf(masterElement)]]
    ELSE IF name = "Tracks"
    THEN LET b == Built(masterElement.children, TrackOf)
         IN  IF ~b.ok THEN [brk |-> TRUE, c |-> Crash(c), P |-> P]
             ELSE [brk |-> FALSE, c |-> c,
                   P |-> [P EXCEPT !.m_masterData.Tracks =
                             @ \o [i \in 1..Len(b.items) |-> b.items[i].track]]]
    ELSE IF name = "Cues"
    THEN LET b == Built(masterElement.children, CuePointOf)
         IN  IF ~b.ok THEN [brk |-> TRUE, c |-> Crash(c), P |-> P]
             ELSE [brk |-> FALSE, c |-> c,
                   P |-> [P EXCEPT !.m_masterData.Cues =
                             @ \o [i \in 1..Len(b.items) |-> b.items[i].cue]]]
    ELSE IF name = "Timecode"
    THEN     Only([s \in { ReadSimpleElement2(mem, c, type, size, oob)} |->
             IF Faulted(s.c) THEN [brk |-> TRUE, c |-> s.c, P |-> P]
             ELSE IF s.null THEN [brk |-> TRUE, c |-> Crash(s.c), P |-> P]
             ELSE [brk |-> FALSE, c |-> s.c,
                   P |-> [P EXCEPT !.m_currentBlockTimeCode = s.el.data]]])
    ELSE IF name = "SimpleBlock"
    THEN     Only([b \in { SimpleBlock(mem, c, P, size, oob)} |->
             [brk |-> TRUE, c |-> b.c, P |-> b.P]])
    ELSE IF name = "EBML" \/ name = "BlockGroup"
    THEN [brk |-> FALSE, c |-> c, P |-> P]
    ELSE IF type # JUST_GO_ON /\ type # MASTER
    THEN     Only([dump \in { ReadSimpleElement2(mem, c, type, size, oob)} |->
             [brk |-> Faulted(dump.c), c |-> dump.c, P |-> P]])
    ELSE [brk |-> FALSE, c |-> c, P |-> P]

RECURSIVE ParseLoop(_, _, _, _)
ParseLoop(mem, c, P, oob) ==
    IF c.cbLen = 0 THEN [ret |-> TRUE, c |-> c, P |-> P]
    ELSE
        Only([elemHeader \in { ReadEbmlElementHeader(mem, c, oob)} |->
        LET ch == elemHeader.c IN
        Only([known \in { elemHeader.id \in DOMAIN element_types_names} |->
        \* find() of an unknown id returns end(), which is dereferenced
        Only([type \in { IF known THEN element_types_names[elemHeader.id].type ELSE BINARY} |->
        Only([name \in { IF known THEN element_types_names[elemHeader.id].name ELSE NullStr} |->
        LET size == elemHeader.elemsize
        hsize == elemHeader.headsize
        rewound == [ret |-> FALSE, c |-> Skip(ch, 0 - hsize), P |-> P]
    IN  IF Faulted(ch) THEN [ret |-> FALSE, c |-> ch, P |-> P]
        ELSE IF ~known /\ oob = -1 THEN [ret |-> FALSE, c |-> Crash(ch), P |-> P]
        ELSE IF type = MASTER
        THEN IF UGt(size, ch.cbLen) THEN rewound
             ELSE     Only([t \in { ReadEbmlElementTree2(mem, ch, size, oob)} |->
                      Only([r \in { Interpret(mem, t.c, P, name, type, size, t.el, oob)} |->
                      IF Faulted(t.c) THEN [ret |-> FALSE, c |-> t.c, P |-> P]
                      ELSE IF Faulted(r.c) THEN [ret |-> FALSE, c |-> r.c, P |-> r.P]
                      ELSE ParseLoop(mem, r.c, r.P, oob)])])
        ELSE IF type = JUST_GO_ON
        THEN LET k == IF name = "Cluster" THEN ClusterHeader(ch, P)
                      ELSE [done |-> FALSE, c |-> ch, P |-> P] IN
                 Only([r \in { Interpret(mem, k.c, k.P, name, type, size, NoElement, oob)} |->
                 IF k.done THEN [ret |-> FALSE, c |-> k.c, P |-> k.P]
                 ELSE ParseLoop(mem, r.c, r.P, oob)])
        ELSE IF UGt(size, ch.cbLen) THEN rewound
        ELSE     Only([r \in { Interpret(mem, ch, P, name, type, size, NoElement, oob)} |->
                 IF Faulted(r.c) THEN [ret |-> FALSE, c |-> r.c, P |-> r.P]
                 ELSE IF r.brk THEN [ret |-> TRUE, c |-> r.c, P |-> r.P]
                 ELSE ParseLoop(mem, r.c, r.P, oob)])])])])])

ParseBytes(mem, begin, cbLen, P, oob) ==
    LET c == [p |-> begin, cbLen |-> cbLen, ate |-> 0, fault |-> "none"]
    IN  IF ULt(cbLen, 4) THEN [ret |-> FALSE, c |-> c, P |-> P]
        ELSE ParseLoop(mem, c, P, oob)


(***************************************************************************)
(* Buffer.  arr is the array behind the buffer (m_array), as long as       *)
(* m_allocated; gen counts the arrays allocated so far, so that an address *)
(* handed to a read can be told from an address in a later array.          *)
(***************************************************************************)
NullBuffer ==
    [arr |-> <<>>, m_count |-> 0, m_allocated |-> 0, m_begin |-> 0, m_end |-> 0,
     gen |-> 0]

DataSize(B) == B.m_end - B.m_begin

CurrentFreeSize(B) == B.m_count - DataSize(B)

Allocate(B, alloc) ==
    IF alloc > B.m_allocated
    THEN [B EXCEPT !.arr = [i \in 1..alloc |-> IF i <= B.m_count THEN B.arr[i] ELSE 0],
                   !.m_allocated = alloc,
                   !.gen = @ + 1]
    ELSE B

SetSize(B, count) ==
    [(IF count > B.m_allocated THEN Allocate(B, count) ELSE B) EXCEPT !.m_count = count]

\* Buffer::Buffer
NewBuffer(cbSize) == SetSize(NullBuffer, cbSize)

\* cb > MAXDWORD - DataSize
ReserveThrows(B, cb) == UGt(cb, -1 - DataSize(B))

\* Reserve that resets the positions and leaves the bytes where they are
ReserveNoMove(B, cb) ==
    IF cb > B.m_count - B.m_end
    THEN LET B1 == IF cb > CurrentFreeSize(B) THEN SetSize(B, DataSize(B) + cb) ELSE B
         IN  [B1 EXCEPT !.m_end = DataSize(B), !.m_begin = 0]
    ELSE B

\* Reserve that resets m_begin ahead of m_end, the order the source warns of
ReserveBeginFirst(B, cb) ==
    IF cb > B.m_count - B.m_end
    THEN LET B1 == IF cb > CurrentFreeSize(B) THEN SetSize(B, DataSize(B) + cb) ELSE B
         IN  [B1 EXCEPT !.arr = [i \in 1..Len(B1.arr) |->
                                    IF i <= DataSize(B) THEN B1.arr[B.m_begin + i]
                                    ELSE B1.arr[i]],
                        !.m_begin = 0]
    ELSE B

Reserve(B, cb) ==
    IF cb > B.m_count - B.m_end
    THEN LET B1 == IF cb > CurrentFreeSize(B) THEN SetSize(B, DataSize(B) + cb) ELSE B
         IN  [B1 EXCEPT !.arr = [i \in 1..Len(B1.arr) |->
                                    IF i <= DataSize(B) THEN B1.arr[B.m_begin + i]
                                    ELSE B1.arr[i]],
                        !.m_end = DataSize(B),
                        !.m_begin = 0]
    ELSE B

\* the test of MoveStart off by one
MoveStartThrowsAtEnd(B, cb) == ~ULt(cb, DataSize(B))

MoveStartThrows(B, cb) == UGt(cb, DataSize(B))

MoveStart(B, cb) == [B EXCEPT !.m_begin = @ + cb]

\* MoveEnd that does not reserve
MoveEndUnreserved(B, cb) == [B EXCEPT !.m_end = @ + cb]

MoveEnd(B, cb) == [Reserve(B, cb) EXCEPT !.m_end = @ + cb]


(***************************************************************************)
(* The input files.  Elem builds one element with a one-byte size.         *)
(***************************************************************************)
Elem(id, payload) == id \o <<128 + Len(payload)>> \o payload

EbmlHeader == Elem(<<26, 69, 223, 163>>, <<>>)

\* a Segment header of unknown size
SegmentHeader == <<24, 83, 128, 103, 255>>

SeekEntry(id, pos) ==
    Elem(<<77, 187>>, Elem(<<83, 171>>, id) \o Elem(<<83, 172>>, <<pos>>))

SeekHeadOf(entries) == Elem(<<17, 77, 155, 116>>, entries)

\* TimecodeScale 1000000
InfoElem == Elem(<<21, 73, 169, 102>>, Elem(<<42, 215, 177>>, <<15, 66, 64>>))

\* an audio track "AC" with DefaultDuration 2000000 ns
TrackEntry(number) ==
    Elem(<<174>>, Elem(<<215>>, <<number>>) \o Elem(<<131>>, <<2>>)
                  \o Elem(<<134>>, <<65, 67>>) \o Elem(<<225>>, <<>>)
                  \o Elem(<<35, 227, 131>>, <<30, 132, 128>>))

TracksOf(entries) == Elem(<<22, 84, 174, 107>>, entries)

CuePointElem(time, pos) ==
    Elem(<<187>>, Elem(<<179>>, <<time>>)
                  \o Elem(<<183>>, Elem(<<247>>, <<2>>) \o Elem(<<241>>, <<pos>>)))

CuesOf(points) == Elem(<<28, 83, 187, 107>>, points)

ClusterHeaderOf(timecode) == <<31, 67, 182, 117, 255>> \o Elem(<<231>>, <<timecode>>)

\* a SimpleBlock: track, relative timecode (two bytes), flags, the rest
BlockElem(track, tc, flags, rest) ==
    Elem(<<163>>, <<128 + track, tc[1], tc[2], flags>> \o rest)

IdInfo == <<21, 73, 169, 102>>

IdTracks == <<22, 84, 174, 107>>

IdCues == <<28, 83, 187, 107>>


(***************************************************************************)
(* The state of the source.                                                *)
(***************************************************************************)
VARIABLES
    file,                 \* the content of the byte stream
    m_state,              \* STATE_INVALID, OPENING, STOPPED, STARTED, PAUSED, SHUTDOWN
    m_cRestartCounter,
    m_spSampleRequest,    \* NoOp, or the ulVal of the pending OP_REQUEST_DATA
    m_spCurrentOp,        \* "nullptr", or the operation in progress
    m_flRate,
    m_cPendingEOS,
    m_streams,            \* the stream list, in the order of creation
    m_ReadBuffer,
    m_parser,
    m_masterData,         \* the source's pointer: "nullptr", "set" or "deleted"
    m_spPresentationDescriptor,
    m_spEventQueue,       \* TRUE once the event queue exists
    opQueue,              \* operations queued and not yet dispatched
    reads,                \* reads of the byte stream begun and not yet completed
    bsPos,                \* current position of the byte stream
    shortReads,           \* the reads that have come back short so far
    seeks,                \* the calls of Start with a start position so far
    calls,                \* the calls of Start, Stop, Pause and SetRate so far
    openedEvent,          \* "pending", "set" or "failed"
    ringLog,              \* the frames written to the ring and not yet taken
    out,                  \* what the last step did
    fault,                \* "none", or "crash" / "hang" once the process is lost
    unit,                 \* a cue list, a Buffer or a byte string on its own
    call                  \* the last call made on unit, with what it returned

vars == <<file, m_state, m_cRestartCounter, m_spSampleRequest,
          m_spCurrentOp, m_flRate,
          m_cPendingEOS, m_streams, m_ReadBuffer, m_parser, m_masterData,
          m_spPresentationDescriptor, m_spEventQueue, opQueue, reads, bsPos,
          shortReads, seeks, calls, openedEvent, ringLog, out, fault, unit,
          call>>

\* the variables of the source
srcVars == <<file, m_state, m_cRestartCounter, m_spSampleRequest,
          m_spCurrentOp, m_flRate,
             m_cPendingEOS, m_streams, m_ReadBuffer, m_parser, m_masterData,
             m_spPresentationDescriptor, m_spEventQueue, opQueue, reads, bsPos,
             shortReads, seeks, calls, openedEvent, ringLog, out, fault>>

NoOp == -1

\* nothing done: no read begun, no sample delivered, no frame taken
Quiet == [issued |-> <<>>, delivered |-> <<>>, taken |-> <<>>, sought |-> <<>>,
          read |-> <<>>, seek |-> <<>>, parsed |-> FALSE, extended |-> FALSE,
          error |-> FALSE, held |-> 0, rate |-> <<>>, threw |-> FALSE]

\* the state as one record, the form the handlers below work on; exc is set
\* while an exception propagates
Bundle ==
    [m_state |-> m_state, m_cRestartCounter |-> m_cRestartCounter,
     m_spSampleRequest |-> m_spSampleRequest,
     m_spCurrentOp |-> m_spCurrentOp, m_flRate |-> m_flRate,
     m_cPendingEOS |-> m_cPendingEOS, m_streams |-> m_streams,
     m_ReadBuffer |-> m_ReadBuffer, m_parser |-> m_parser,
     m_masterData |-> m_masterData,
     m_spPresentationDescriptor |-> m_spPresentationDescriptor,
     m_spEventQueue |-> m_spEventQueue, opQueue |-> opQueue, reads |-> reads,
     bsPos |-> bsPos, shortReads |-> shortReads, seeks |-> seeks,
     calls |-> calls,
     openedEvent |-> openedEvent, ringLog |-> ringLog,
     out |-> Quiet, fault |-> fault, exc |-> FALSE]

\* the state a handler leaves; once the process is lost only the way it was
\* lost and what the application has seen of the open are kept
Commit(s) ==
    LET lost == s.fault # "none"
    IN  /\ m_state' = s.m_state
        /\ m_cRestartCounter' = IF lost THEN 0 ELSE s.m_cRestartCounter
        /\ m_spSampleRequest' = IF lost THEN NoOp ELSE s.m_spSampleRequest
        /\ m_spCurrentOp' = IF lost THEN "nullptr" ELSE s.m_spCurrentOp
        /\ m_flRate' = IF lost THEN 1 ELSE s.m_flRate
        /\ m_cPendingEOS' = IF lost THEN 0 ELSE s.m_cPendingEOS
        /\ m_streams' = IF lost THEN <<>> ELSE s.m_streams
        /\ m_ReadBuffer' = IF lost THEN NullBuffer ELSE s.m_ReadBuffer
        /\ m_parser' = IF lost THEN NullParser ELSE s.m_parser
        /\ m_masterData' = IF lost THEN "nullptr" ELSE s.m_masterData
        /\ m_spPresentationDescriptor' =
               IF lost THEN [null |-> TRUE, n |-> 0] ELSE s.m_spPresentationDescriptor
        /\ m_spEventQueue' = IF lost THEN FALSE ELSE s.m_spEventQueue
        /\ opQueue' = IF lost THEN <<>> ELSE s.opQueue
        /\ reads' = IF lost THEN <<>> ELSE s.reads
        /\ bsPos' = IF lost THEN 0 ELSE s.bsPos
        /\ shortReads' = IF lost THEN 0 ELSE s.shortReads
        /\ seeks' = IF lost THEN 0 ELSE s.seeks
        /\ calls' = IF lost THEN 0 ELSE s.calls
        /\ openedEvent' = s.openedEvent
        /\ ringLog' = IF lost THEN <<>> ELSE s.ringLog
        /\ out' = IF lost THEN Quiet ELSE s.out
        /\ fault' = s.fault
        /\ UNCHANGED <<file, unit, call>>

Stopped(s) == s.exc \/ s.fault # "none"

Raise(s) == [s EXCEPT !.exc = TRUE]

Lose(s, how) == [s EXCEPT !.fault = how]

(***************************************************************************)
(* MKVStream, the stream list and the operation queue.  Their sources are  *)
(* not part of the repository snapshot; they follow the media-source       *)
(* sample the source is derived from.  A stream queues the samples it is   *)
(* given and hands one out per request while it is started; it asks the    *)
(* source for data while it is active, not at its end and holds fewer than *)
(* SAMPLE_QUEUE samples.                                                   *)
(***************************************************************************)
SAMPLE_QUEUE == 2

NewStream(id) ==
    [id |-> id % 256, active |-> FALSE, state |-> "stopped", eos |-> FALSE,
     nSamples |-> 0, nRequests |-> 0]

\* StreamList::Find: the index of the first stream with the id, or 0
Find(streams, id) ==
    LET hits == {i \in 1..Len(streams) : streams[i].id = id % 256}
    IN  IF hits = {} THEN 0 ELSE CHOOSE i \in hits : \A j \in hits : i <= j

NeedsData(st) == st.active /\ ~st.eos /\ st.nSamples < SAMPLE_QUEUE

\* OpQueue::QueueOperation
QueueOperation(s, op) == [s EXCEPT !.opQueue = Append(@, op)]

QueueAsyncOperation(s, OpType) ==
    QueueOperation(s, [op |-> OpType, sel |-> {}, startPos |-> 0, rate |-> 0, n |-> 0])

\* MKVStream::DispatchSamples
DispatchSamples(s, i) ==
    LET st == s.m_streams[i]
        n == Min(st.nSamples, st.nRequests)
        st1 == [st EXCEPT !.nSamples = @ - n, !.nRequests = @ - n]
        s1 == [s EXCEPT !.m_streams[i] = st1]
    IN  IF st.state # "started" THEN s
        ELSE IF st1.nSamples = 0 /\ st1.eos
        THEN QueueAsyncOperation(s1, "OP_END_OF_STREAM")
        ELSE IF NeedsData(st1) THEN QueueAsyncOperation(s1, "OP_REQUEST_DATA")
        ELSE s1

\* MKVStream::DeliverPayload
StreamDeliverPayload(s, i) ==
    DispatchSamples([s EXCEPT !.m_streams[i].nSamples = @ + 1], i)

\* MKVStream::Start
StreamStart(s, i) ==
    DispatchSamples([s EXCEPT !.m_streams[i].state = "started"], i)

\* MKVStream::Stop
StreamStop(st) ==
    [st EXCEPT !.state = "stopped", !.nSamples = 0, !.nRequests = 0]

\* MKVStream::Pause
StreamPause(st) == [st EXCEPT !.state = "paused"]

\* MKVStream::Activate
Activate(st, fActive) ==
    IF fActive = st.active THEN st
    ELSE IF fActive THEN [st EXCEPT !.active = TRUE]
    ELSE [st EXCEPT !.active = FALSE, !.nSamples = 0, !.nRequests = 0]

\* MKVStream::EndOfStream
StreamEndOfStream(s, i) ==
    DispatchSamples([s EXCEPT !.m_streams[i].eos = TRUE], i)

(***************************************************************************)
(* MKVSource: the helpers of the handlers.                                 *)
(***************************************************************************)
\* MKVSource::Shutdown, after CheckShutdown
Shutdown(s) ==
    [s EXCEPT !.m_streams = <<>>,
              !.m_spEventQueue = FALSE,
              !.m_spPresentationDescriptor = [null |-> TRUE, n |-> 0],
              !.m_spCurrentOp = "nullptr",
              !.m_masterData = IF @ = "nullptr" THEN @ ELSE "deleted",
              !.m_parser = NullParser,
              !.m_state = "STATE_SHUTDOWN"]

\* MKVSource::CompleteOpen
CompleteOpen(s, failed) ==
    IF failed THEN [Shutdown(s) EXCEPT !.openedEvent = IF @ = "pending" THEN "failed" ELSE @]
    ELSE [s EXCEPT !.openedEvent = IF @ = "pending" THEN "set" ELSE @]

\* MKVSource::StreamingError, reached from the handlers' catch clauses
StreamingError(s) ==
    LET s1 == [s EXCEPT !.exc = FALSE, !.out.error = TRUE]
    IN  IF s.fault # "none" THEN s
        ELSE IF ~s.exc THEN s
        ELSE IF s.m_state = "STATE_OPENING" THEN CompleteOpen(s1, TRUE)
        ELSE IF s.m_state # "STATE_SHUTDOWN" /\ ~s.m_spEventQueue THEN Lose(s1, "crash")
        ELSE s1

\* MKVSource::IsInitialized
IsInitialized(state) == state \notin {"STATE_OPENING", "STATE_INVALID"}

\* MKVSource::IsStreamTypeSupported
IsStreamTypeSupported(type) == type # <<117, 110, 100>>

\* a position past the end of the byte stream reads nothing wherever it is,
\* so every such position is kept as the first of them
ClampPos(pos) == IF pos < 0 \/ pos > Len(file) THEN Len(file) + 1 ELSE pos

\* MKVSource::RequestData.  The read waits for the byte stream to carry it
\* out (status "pending"); target is the offset of the address handed to
\* BeginRead in the array gen; issuedAt is the restart counter at the time of
\* the request.
RequestData(s, cbRequest) ==
    LET B == Reserve(s.m_ReadBuffer, cbRequest)
    IN  IF Stopped(s) THEN s
        \* InvalidArgumentException of Reserve, or the array of 2 GB and more
        \* that cannot be had
        ELSE IF ReserveThrows(s.m_ReadBuffer, cbRequest) \/ cbRequest < 0 THEN Raise(s)
        ELSE [s EXCEPT !.m_ReadBuffer = B,
                       !.reads = Append(@, [tag |-> s.m_spSampleRequest,
                                            issuedAt |-> s.m_cRestartCounter,
                                            cb |-> cbRequest, n |-> 0,
                                            target |-> B.m_end, gen |-> B.gen,
                                            status |-> "pending"]),
                       !.out.issued = Append(@, s.m_spSampleRequest)]

\* a seek that cancels the pending I/O: the reads not carried out are called
\* off
CancelReads(rs) ==
    [i \in 1..Len(rs) |->
        IF rs[i].status = "pending" THEN [rs[i] EXCEPT !.status = "aborted"]
        ELSE rs[i]]

\* the loops "if (Tracks[i]->TrackNumber == currentTrack) trackIndex = i"
TrackIndex(tracks, currentTrack) ==
    SetMax({0} \cup {i \in 1..Len(tracks) : tracks[i].TrackNumber = currentTrack})

\* MKVSource::CreateStreams, from the track i on
RECURSIVE CreateStreamsFrom(_, _)
CreateStreamsFrom(s, i) ==
    LET tracks == s.m_parser.m_masterData.Tracks
        t == tracks[i]
        made == [s EXCEPT !.m_streams = Append(@, NewStream(t.TrackNumber))]
    IN  IF Stopped(s) \/ i > Len(tracks) THEN s
        ELSE IF t.TrackType \in {1, 2}
        THEN \* CreateVideoMediaType, CreateAudioMediaType
             IF t.CodecID = NullStr \/ ~t.hasVideoAudio THEN Lose(s, "crash")
             ELSE CreateStreamsFrom(made, i + 1)
        ELSE IF t.TrackType = 17 THEN CreateStreamsFrom(made, i + 1)
        ELSE Raise(s)

CreateStreams(s) == CreateStreamsFrom(s, 1)

\* MKVSource::InitPresentationDescriptor
InitPresentationDescriptor(s) ==
    LET md == s.m_parser.m_masterData
        counted == {i \in 1..Len(md.Tracks) : IsStreamTypeSupported(md.Tracks[i].CodecID)}
        cStreams == Cardinality(counted)
        s1 == [s EXCEPT !.m_masterData = "set"]
    IN  IF Stopped(s) THEN s
        ELSE IF \E i \in 1..Len(md.Tracks) : md.Tracks[i].CodecID = NullStr
        THEN Lose(s1, "crash")
        ELSE IF cStreams > Len(s.m_streams) THEN s1
        ELSE IF cStreams >= 4 \/ md.SegInfo.null THEN Lose(s1, "crash")
        ELSE CompleteOpen(
                [s1 EXCEPT !.m_spPresentationDescriptor =
                               [null |-> FALSE,
                                n |-> IF cStreams = 3 THEN 2 ELSE cStreams],
                           !.m_state = "STATE_STOPPED"], FALSE)

\* the four bytes of a length as MKVSource::DeliverPayload adds them up
NaluLen(b) ==
    (IF b[1] >= 128 THEN b[1] - 256 ELSE b[1]) * 16777216
        + b[2] * 65536 + b[3] * 256 + b[4]

\* MKVSource::DeliverPayload, the loop that turns the lengths of the units
\* of a frame of the stream 1 into start codes; p and limit are offsets from
\* the start of the array, left the iterations still looked at
RECURSIVE NaluLoop(_, _, _, _, _)
NaluLoop(arr, p, limit, left, oob) ==
    LET inside == p >= 0 /\ p + 4 <= Len(arr)
        b == [k \in 1..4 |-> Peek(arr, p + k - 1, oob)]
        arr1 == IF inside
                THEN [i \in 1..Len(arr) |->
                         IF i \in (p + 1)..(p + 3) THEN 0
                         ELSE IF i = p + 4 THEN 1 ELSE arr[i]]
                ELSE arr
        next == p + NaluLen(b) + 4
    IN  IF p >= limit THEN [arr |-> arr, fault |-> "none"]
        ELSE IF ~inside /\ oob = -1 THEN [arr |-> arr, fault |-> "crash"]
        ELSE IF left = 0 THEN [arr |-> arr1, fault |-> "hang"]
        ELSE IF next > limit + Len(arr) \/ next < 0 - Len(arr)
        THEN [arr |-> arr1, fault |-> IF next > limit THEN "none" ELSE "crash"]
        ELSE NaluLoop(arr1, next, limit, left - 1, oob)

\* MKVSource::DeliverPayload
DeliverPayload(s, oob) ==
    LET P == s.m_parser
        B == s.m_ReadBuffer
        s1 == IF s.m_state = "STATE_OPENING" THEN CreateStreams(s) ELSE s
        wpStream == Find(s1.m_streams, P.m_currentStream)
        trackIndex == TrackIndex(P.m_masterData.Tracks, P.m_currentStream)
        first == P.m_currentStream = 1 /\ ~P.m_insertedHeaderYet
        frameLength == P.m_currentFrameSize + (IF first THEN 40 ELSE 0)
        nalu == IF P.m_currentStream = 1
                THEN NaluLoop(B.arr, B.m_begin, B.m_begin + P.m_currentFrameSize,
                              Len(B.arr) + 1, oob)
                ELSE [arr |-> B.arr, fault |-> "none"] IN
        Only([s2 \in { [s1 EXCEPT !.m_parser.m_insertedHeaderYet =
                             @ \/ P.m_currentStream = 1,
                         !.m_ReadBuffer.arr = nalu.arr]} |->
        LET s3 == StreamDeliverPayload(
                 [s2 EXCEPT !.out.delivered =
                     Append(@, [stream |-> s2.m_streams[wpStream].id,
                                size |-> frameLength,
                                ts |-> P.m_currentTimeStamp,
                                cluster |-> P.m_currentBlockTimeCode,
                                rel |-> P.blockRel, nth |-> P.blockNth,
                                DefaultDuration |->
                                    IF trackIndex = 0 THEN 0
                                    ELSE P.m_masterData.Tracks[trackIndex].DefaultDuration]),
                           !.m_parser.blockNth = @ + 1], wpStream)
    IN  IF Stopped(s) THEN s
        ELSE IF UGt(P.m_currentFrameSize, DataSize(B)) THEN Raise(s)
        ELSE IF Stopped(s1) THEN s1
        ELSE IF wpStream = 0 THEN Lose(s1, "crash")
        ELSE IF nalu.fault # "none" THEN Lose(s2, nalu.fault)
        ELSE IF trackIndex = 0 /\ oob = -1 THEN Lose(s2, "crash")
        ELSE IF s3.m_state = "STATE_OPENING" THEN InitPresentationDescriptor(s3)
        ELSE s3])

\* MKVSource::IsStreamActive
IsStreamActive(s) ==
    LET wpStream == Find(s.m_streams, s.m_parser.m_currentStream)
    IN  \/ s.m_state = "STATE_OPENING"
        \/ wpStream # 0 /\ s.m_streams[wpStream].active

\* "pCircRead++", the wrap-around, "m_frameCount--" and ClearFrames; the
\* frame leaves the ring with the size read from it
TakeFrame(s) ==
    LET P == s.m_parser
        count == (P.m_frameCount + 255) % 256
    IN  [s EXCEPT !.m_parser.pCircRead =
                      IF @ + 1 = m_cirBufferLength THEN 0 ELSE @ + 1,
                  !.m_parser.m_frameCount = count,
                  !.m_parser.m_framesReady = IF count = 0 THEN FALSE ELSE @,
                  !.ringLog = IF @ = <<>> THEN @ ELSE Tail(@),
                  !.out.taken =
                      Append(@, [size |-> P.m_currentFrameSize,
                                 written |-> IF s.ringLog = <<>> THEN <<>>
                                             ELSE <<Head(s.ringLog)>>])]

\* ReadPayload without the step of the time stamp from one frame to the next
ReadPayloadUnstepped(s, oob) ==
    LET P0 == s.m_parser
        size == P0.m_circularBuffer[P0.pCircRead + 1]
        s0 == [s EXCEPT !.m_parser.m_currentFrameSize = size]
        B == s.m_ReadBuffer
        cbPayloadUnread == IF UGt(size, DataSize(B)) THEN size - DataSize(B) ELSE 0
        cbPayloadRead == size - cbPayloadUnread
        tracks == P0.m_masterData.Tracks
        trackIndex == TrackIndex(tracks, P0.m_currentStream)
        duration == IF trackIndex = 0 THEN 0 ELSE tracks[trackIndex].DefaultDuration IN
        Only([d \in { DeliverPayload(s0, oob)} |->
        IF ~IsStreamActive(s)
        THEN \* Seek(msoCurrent, cbPayloadUnread, cancel pending I/O)
             [s |-> TakeFrame([s0 EXCEPT !.bsPos =
                                 IF cbPayloadUnread < 0 THEN ClampPos(-1)
                                 ELSE ClampPos(@ + cbPayloadUnread),
                                         !.reads = CancelReads(@),
                                         !.out.sought = Append(@, "payload")]),
              fResult |-> TRUE, cbAte |-> cbPayloadRead, cbNextRequest |-> 0, set |-> FALSE]
        ELSE IF cbPayloadUnread # 0
        THEN [s |-> s0, fResult |-> FALSE, cbAte |-> 0,
              cbNextRequest |-> cbPayloadUnread, set |-> TRUE]
        ELSE [s |-> IF Stopped(d) THEN d
                    ELSE TakeFrame([d EXCEPT !.m_parser.m_currentTimeStamp =
                                       @]),
              fResult |-> TRUE, cbAte |-> cbPayloadRead, cbNextRequest |-> 0, set |-> FALSE]])

\* MKVSource::ReadPayload
ReadPayload(s, oob) ==
    LET P0 == s.m_parser
        size == P0.m_circularBuffer[P0.pCircRead + 1]
        s0 == [s EXCEPT !.m_parser.m_currentFrameSize = size]
        B == s.m_ReadBuffer
        cbPayloadUnread == IF UGt(size, DataSize(B)) THEN size - DataSize(B) ELSE 0
        cbPayloadRead == size - cbPayloadUnread
        tracks == P0.m_masterData.Tracks
        trackIndex == TrackIndex(tracks, P0.m_currentStream)
        duration == IF trackIndex = 0 THEN 0 ELSE tracks[trackIndex].DefaultDuration IN
        Only([d \in { DeliverPayload(s0, oob)} |->
        IF ~IsStreamActive(s)
        THEN \* Seek(msoCurrent, cbPayloadUnread, cancel pending I/O)
             [s |-> TakeFrame([s0 EXCEPT !.bsPos =
                                 IF cbPayloadUnread < 0 THEN ClampPos(-1)
                                 ELSE ClampPos(@ + cbPayloadUnread),
                                         !.reads = CancelReads(@),
                                         !.out.sought = Append(@, "payload")]),
              fResult |-> TRUE, cbAte |-> cbPayloadRead, cbNextRequest |-> 0, set |-> FALSE]
        ELSE IF cbPayloadUnread # 0
        THEN [s |-> s0, fResult |-> FALSE, cbAte |-> 0,
              cbNextRequest |-> cbPayloadUnread, set |-> TRUE]
        ELSE [s |-> IF Stopped(d) THEN d
                    ELSE TakeFrame([d EXCEPT !.m_parser.m_currentTimeStamp =
                                       @ + TruncDiv(duration, 1000000)]),
              fResult |-> TRUE, cbAte |-> cbPayloadRead, cbNextRequest |-> 0, set |-> FALSE]])

\* Parser::FindSeekPoint.  lastOne is the last cue point the scan passed
\* before it met one that is not earlier than the start time.  When the scan
\* passes none, the pointer is read without having been set: the call stops
\* the process or goes on with what the pointer holds, a cue point left by an
\* earlier use of the memory (stale).
LastOne(Cues, startTime) ==
    LET stop == {i \in 1..Len(Cues) : ~(Cues[i].CueTime < startTime)}
        first == IF stop = {} THEN Len(Cues) + 1
                 ELSE CHOOSE i \in stop : \A j \in stop : i <= j
    IN  first - 1

FindSeekPoint(P, oob, stale) ==
    LET md == P.m_masterData
        scale == md.SegInfo.TimecodeScale \div 100
        startTime == P.m_startPosition \div scale
        last == LastOne(md.Cues, startTime)
        lastOne == IF last # 0 THEN last ELSE stale
        crash == [fault |-> "crash", pos |-> 0]
    IN  IF md.SegInfo.null \/ scale = 0 THEN crash
        ELSE IF last = 0 /\ (oob = -1 \/ stale \notin 1..Len(md.Cues)) THEN crash
        ELSE IF Len(md.Cues[lastOne].CueTrackPositions) = 0 THEN crash
        ELSE [fault |-> "none",
              pos |-> md.Cues[lastOne].CueTrackPositions[1].CueClusterPosition
                        + md.SegmentPosition]

\* MKVSource::EndOfMPEGStream, from the stream i on
RECURSIVE EndOfStreams(_, _)
EndOfStreams(s, i) ==
    IF i > Len(s.m_streams) THEN s
    ELSE IF s.m_streams[i].active THEN EndOfStreams(StreamEndOfStream(s, i), i + 1)
    ELSE EndOfStreams(s, i + 1)

EndOfMPEGStream(s) == EndOfStreams(s, 1)

\* MKVSource::StreamsNeedData
StreamsNeedData(s) ==
    IF s.m_state = "STATE_OPENING" THEN TRUE
    ELSE IF s.m_state = "STATE_SHUTDOWN" THEN FALSE
    ELSE \E i \in 1..Len(s.m_streams) : NeedsData(s.m_streams[i])

\* the frames one call of ParseBytes wrote join those the ring holds; held is
\* the greatest number of frames written and not yet taken
Hold(s, P) ==
    [s EXCEPT !.m_parser = [P EXCEPT !.wrote = <<>>],
              !.ringLog = @ \o P.wrote,
              !.out.held = IF Len(s.ringLog) + Len(P.wrote) > @
                           THEN Len(s.ringLog) + Len(P.wrote) ELSE @]

\* MKVSource::ParseData, one turn of the loop up to the seek or the advance
\* of the read buffer: the four branches
ParseStep(s, cbNextRequest, fNeedMoreData, oob, stale) ==
    LET P == s.m_parser
        B == s.m_ReadBuffer
        same == [s |-> s, cbAte |-> 0, cbNextRequest |-> cbNextRequest,
                 fNeedMoreData |-> fNeedMoreData]
    IN  IF P.m_bEOS THEN [same EXCEPT !.s = EndOfMPEGStream(s)]
        ELSE IF P.m_framesReady
        THEN Only([rp \in {ReadPayload(s, oob)} |->
             [s |-> rp.s, cbAte |-> rp.cbAte,
              cbNextRequest |-> IF rp.set THEN rp.cbNextRequest ELSE cbNextRequest,
              fNeedMoreData |-> ~rp.fResult]])
        ELSE IF P.m_startPosition > 0
        THEN LET seek == FindSeekPoint(P, oob, stale)
             IN  IF seek.fault # "none" THEN [same EXCEPT !.s = Lose(s, seek.fault)]
                 ELSE [same EXCEPT !.s = [s EXCEPT !.m_parser.m_jumpFlag = TRUE,
                                               !.m_parser.m_jumpTo = seek.pos,
                                               !.m_parser.m_startPosition = 0,
                                               !.out.seek = Append(@,
                                                   [startPosition |-> P.m_startPosition,
                                                    pos |-> seek.pos])]]
        ELSE Only([pb \in {ParseBytes(B.arr, B.m_begin, DataSize(B),
                                      [P EXCEPT !.wrote = <<>>], oob)} |->
             [s |-> IF pb.c.fault = "throw"
                    THEN Raise([Hold(s, pb.P) EXCEPT !.out.threw = TRUE])
                    ELSE IF pb.c.fault # "none" THEN Lose(s, pb.c.fault)
                    ELSE [Hold(s, pb.P) EXCEPT !.out.parsed = TRUE],
              cbAte |-> pb.c.ate, cbNextRequest |-> cbNextRequest,
              fNeedMoreData |-> ~pb.ret]])

\* the jump that leaves the read buffer as it is
AfterStepKeepsWindow(s, cbAte) ==
    IF Stopped(s) THEN s
    ELSE IF s.m_parser.m_jumpFlag
    THEN [s EXCEPT !.m_parser.m_jumpFlag = FALSE,
                   !.bsPos = ClampPos(s.m_parser.m_jumpTo),
                   !.out.sought = Append(@, "jump")]
    ELSE IF MoveStartThrows(s.m_ReadBuffer, cbAte) THEN Raise(s)
    ELSE [s EXCEPT !.m_ReadBuffer = MoveStart(@, cbAte)]

\* "if (m_parser->m_jumpFlag) ... else MoveStart(cbAte)"
AfterStep(s, cbAte) ==
    IF Stopped(s) THEN s
    ELSE IF s.m_parser.m_jumpFlag
    THEN [s EXCEPT !.m_parser.m_jumpFlag = FALSE,
                   !.bsPos = ClampPos(s.m_parser.m_jumpTo),
                   !.out.sought = Append(@, "jump"),
                   !.m_ReadBuffer = MoveStart(@, DataSize(@))]
    ELSE IF MoveStartThrows(s.m_ReadBuffer, cbAte) THEN Raise(s)
    ELSE [s EXCEPT !.m_ReadBuffer = MoveStart(@, cbAte)]

\* "case where reached end of file after parsing"
RestartAtCluster(s) ==
    LET md == s.m_parser.m_masterData
        s1 == [s EXCEPT !.m_parser.m_isFinishedParsingMaster = TRUE,
                        !.m_masterData = "set"]
    IN  IF Len(md.Cues) = 0 THEN Lose(s1, "crash")
        ELSE IF Len(md.Cues[1].CueTrackPositions) = 0 THEN Lose(s1, "crash")
        ELSE InitPresentationDescriptor(CreateStreams(
                [s1 EXCEPT !.bsPos = ClampPos(
                               md.Cues[1].CueTrackPositions[1].CueClusterPosition
                                   + md.SegmentPosition),
                           !.out.sought = Append(@, "cluster")]))

RECURSIVE ParseLoopData(_, _, _, _, _)
ParseLoopData(s, cbNextRequest, fNeedMoreData, oob, stale) ==
    IF ~StreamsNeedData(s) THEN [s |-> s, fNeedMoreData |-> fNeedMoreData]
    ELSE
    Only([st \in {ParseStep(IF s.m_masterData = "nullptr"
                                /\ s.m_parser.m_isFinishedParsingMaster
                            THEN [s EXCEPT !.m_masterData = "set"] ELSE s,
                            cbNextRequest, fNeedMoreData, oob, stale)} |->
    Only([s1 \in {AfterStep(st.s, st.cbAte)} |->
    Only([s2 \in {IF /\ ~Stopped(s1)
                     /\ DataSize(s1.m_ReadBuffer) = 0
                     /\ ~s1.m_parser.m_isFinishedParsingMaster
                     /\ ~st.fNeedMoreData
                  THEN RestartAtCluster(s1) ELSE s1} |->
        IF Stopped(s2) THEN [s |-> s2, fNeedMoreData |-> st.fNeedMoreData]
        ELSE IF st.fNeedMoreData
        THEN [s |-> RequestData(s2, IF UGt(st.cbNextRequest, READ_SIZE)
                                    THEN st.cbNextRequest ELSE READ_SIZE),
              fNeedMoreData |-> TRUE]
        ELSE ParseLoopData(s2, st.cbNextRequest, st.fNeedMoreData, oob, stale)])])])

\* MKVSource::ParseData
ParseData(s, oob, stale) ==
        Only([r \in { ParseLoopData(s, 0, FALSE, oob, stale)} |->
        IF Stopped(r.s) \/ r.fNeedMoreData THEN r.s
        ELSE [r.s EXCEPT !.m_spSampleRequest = NoOp]])

(***************************************************************************)
(* MKVSource: the handlers of the operations.  BeginAsyncOp and            *)
(* CompleteAsyncOp set and reset m_spCurrentOp inside one handler, under   *)
(* the lock of the source, so that it is null whenever a handler starts.   *)
(***************************************************************************)
\* MKVSource::SelectStreams, from the stream i on; the descriptor i of the
\* caller's presentation descriptor carries the identifier of the stream i
RECURSIVE SelectFrom(_, _, _)
SelectFrom(s, op, i) ==
    LET wpStream == Find(s.m_streams, s.m_streams[i].id)
        fSelected == i \in op.sel
        s1 == [s EXCEPT !.m_streams[wpStream] = Activate(@, fSelected)]
        s2 == StreamStart([s1 EXCEPT !.m_cPendingEOS = @ + 1], wpStream)
    IN  IF i > Len(s.m_streams) THEN s
        ELSE IF i > op.n THEN Raise(s)
        ELSE IF fSelected THEN SelectFrom(s2, op, i + 1)
        ELSE SelectFrom(s1, op, i + 1)

SelectStreams(s, op) == SelectFrom([s EXCEPT !.m_cPendingEOS = 0], op, 1)

\* MKVSource::DoStart
DoStart(s, op) ==
    LET s1 == SelectStreams(s, op)
    IN  IF Stopped(s1) THEN s1
        ELSE [s1 EXCEPT !.m_state = "STATE_STARTED",
                        !.m_parser.m_startPosition =
                            IF op.startPos # 0 THEN op.startPos ELSE @]

\* DoStop that leaves the restart counter as it is
DoStopUncounted(s) ==
    [s EXCEPT !.m_streams = [i \in 1..Len(@) |->
                  IF @[i].active THEN StreamStop(@[i]) ELSE @[i]],
              !.reads = CancelReads(@),
              !.bsPos = 0,
              !.out.sought = Append(@, "stop"),
              !.m_spSampleRequest = NoOp,
              !.m_state = "STATE_STOPPED"]

\* MKVSource::DoStop
DoStop(s) ==
    [s EXCEPT !.m_streams = [i \in 1..Len(@) |->
                  IF @[i].active THEN StreamStop(@[i]) ELSE @[i]],
              !.reads = CancelReads(@),
              !.bsPos = 0,
              !.out.sought = Append(@, "stop"),
              !.m_cRestartCounter = @ + 1,
              !.m_spSampleRequest = NoOp,
              !.m_state = "STATE_STOPPED"]

\* MKVSource::DoPause
DoPause(s) ==
    IF ~s.m_spEventQueue THEN Lose(s, "crash")
    ELSE IF s.m_state # "STATE_STARTED" THEN Raise(s)
    ELSE [s EXCEPT !.m_streams = [i \in 1..Len(@) |->
                       IF @[i].active THEN StreamPause(@[i]) ELSE @[i]],
                   !.m_state = "STATE_PAUSED"]

\* MKVSource::DoSetRate
DoSetRate(s, op) ==
    IF ~s.m_spEventQueue THEN Lose([s EXCEPT !.m_flRate = op.rate], "crash")
    ELSE [s EXCEPT !.m_flRate = op.rate]

\* OnStreamRequestSample without its test of m_spSampleRequest
OnStreamRequestSampleAlways(s, oob, stale) ==
    ParseData([s EXCEPT !.m_spSampleRequest = s.m_cRestartCounter], oob, stale)

\* MKVSource::OnStreamRequestSample
OnStreamRequestSample(s, oob, stale) ==
    IF s.m_spSampleRequest = NoOp
    THEN ParseData([s EXCEPT !.m_spSampleRequest = s.m_cRestartCounter],
                   oob, stale)
    ELSE s

\* MKVSource::OnEndOfStream
OnEndOfStream(s) == [s EXCEPT !.m_cPendingEOS = @ - 1]

(***************************************************************************)
(* The files the source is opened on.                                      *)
(***************************************************************************)
\* The usual layout: the Cues are last and the SeekHead points at them.  One
\* track, number 2, and two clusters with a cue point each.  The first
\* cluster has a block of two frames of two bytes in fixed-size lacing, one
\* tick before the timecode of the cluster, and a block of a track, number 3,
\* that the Tracks element does not list.
FileCuesLast ==
    EbmlHeader \o SegmentHeader
        \o SeekHeadOf(SeekEntry(IdInfo, 33) \o SeekEntry(IdCues, 112))
        \o InfoElem \o TracksOf(TrackEntry(2))
        \o ClusterHeaderOf(5)
        \o BlockElem(2, <<255, 255>>, 4, <<1, 7, 7, 8, 8>>)
        \o BlockElem(3, <<0, 1>>, 128, <<9>>)
        \o ClusterHeaderOf(9)
        \o BlockElem(2, <<0, 0>>, 128, <<6>>)
        \o CuesOf(CuePointElem(5, 71) \o CuePointElem(9, 97))

\* no SeekHead, and the Cues ahead of the Tracks
FileCuesFirst ==
    EbmlHeader \o SegmentHeader \o InfoElem \o CuesOf(CuePointElem(5, 56))
        \o TracksOf(TrackEntry(2)) \o ClusterHeaderOf(5)
        \o BlockElem(2, <<0, 1>>, 128, <<9, 9>>)

\* a file cut off inside its Tracks element
FileTruncated == SubSeq(FileCuesLast, 1, 70)

\* one block of 31 frames in EBML lacing: the first of two bytes, the others
\* of one byte
FileLaced ==
    EbmlHeader \o SegmentHeader \o InfoElem \o TracksOf(TrackEntry(2))
        \o ClusterHeaderOf(5)
        \o BlockElem(2, <<0, 0>>, 6,
                     <<30, 64, 2, 190>> \o [i \in 1..28 |-> 191]
                         \o [i \in 1..32 |-> i])

\* a block of one frame, a block of two frames in Xiph lacing and a block of
\* one frame
FileXiph ==
    EbmlHeader \o SegmentHeader \o InfoElem \o TracksOf(TrackEntry(2))
        \o ClusterHeaderOf(5)
        \o BlockElem(2, <<0, 0>>, 128, <<9>>)
        \o BlockElem(2, <<0, 1>>, 2, <<1, 1, 7, 8>>)
        \o BlockElem(2, <<0, 2>>, 128, <<6>>)

Files == {FileCuesLast, FileTruncated}

(***************************************************************************)
(* The state after the construction of the source.                         *)
(***************************************************************************)
Constructed ==
    /\ m_state = "STATE_INVALID"
    /\ m_cRestartCounter = 0
    /\ m_spSampleRequest = NoOp
    /\ m_spCurrentOp = "nullptr"
    /\ m_flRate = 1
    /\ m_cPendingEOS = 0
    /\ m_streams = <<>>
    /\ m_ReadBuffer = NullBuffer
    /\ m_parser = NullParser
    /\ m_masterData = "nullptr"
    /\ m_spPresentationDescriptor = [null |-> TRUE, n |-> 0]
    /\ m_spEventQueue = FALSE
    /\ opQueue = <<>>
    /\ reads = <<>>
    /\ bsPos = 0
    /\ shortReads = 0
    /\ seeks = 0
    /\ calls = 0
    /\ openedEvent = "pending"
    /\ ringLog = <<>>
    /\ out = Quiet
    /\ fault = "none"

InitOn(files) ==
    /\ Constructed
    /\ file \in files
    /\ unit = <<>>
    /\ call = <<>>

Init == InitOn(Files)

\* what a handler may meet where the program's behaviour is undefined: -1
\* stops the process, 0 goes on with a zero, 1 and 2 go on with a zero and
\* with the cue point of that index behind an unset pointer
Undefined == -1..2

Oob(ub) == IF ub = -1 THEN -1 ELSE 0

(***************************************************************************)
(* The calls of the application and of the pipeline.                       *)
(***************************************************************************)
\* MKVSource::OpenAsync
OpenAsync ==
    /\ fault = "none"
    /\ m_state = "STATE_INVALID"
    /\ Commit([RequestData([Bundle EXCEPT !.m_spEventQueue = TRUE,
                                          !.m_ReadBuffer = NewBuffer(INITIAL_BUFFER_SIZE),
                                          !.m_parser = NewParser],
                           READ_SIZE)
                  EXCEPT !.m_state = "STATE_OPENING"])

\* MKVSource::Start; sel is what the caller selected in the presentation
\* descriptor, startPos the start position in units of 100 ns
Start(sel, startPos) ==
    /\ fault = "none"
    /\ Len(opQueue) < MaxQueue
    /\ m_state # "STATE_SHUTDOWN"
    /\ IsInitialized(m_state)
    /\ m_masterData # "nullptr"
    /\ sel \subseteq 1..m_spPresentationDescriptor.n
    /\ sel # {}
    /\ startPos # 0 => seeks < MaxSeeks
    /\ calls < MaxCalls
    /\ Commit(QueueOperation([Bundle EXCEPT !.seeks = IF startPos # 0 THEN @ + 1 ELSE @,
                                            !.calls = @ + 1],
                 [op |-> "OP_START", sel |-> sel, startPos |-> startPos, rate |-> 0,
                  n |-> m_spPresentationDescriptor.n]))

\* MKVSource::Stop
Stop ==
    /\ fault = "none"
    /\ Len(opQueue) < MaxQueue
    /\ m_cRestartCounter < MaxRestart
    /\ m_state # "STATE_SHUTDOWN"
    /\ IsInitialized(m_state)
    /\ calls < MaxCalls
    /\ Commit(QueueAsyncOperation([Bundle EXCEPT !.calls = @ + 1], "OP_STOP"))

\* MKVSource::Pause
Pause ==
    /\ fault = "none"
    /\ Len(opQueue) < MaxQueue
    /\ m_state # "STATE_SHUTDOWN"
    /\ calls < MaxCalls
    /\ Commit(QueueAsyncOperation([Bundle EXCEPT !.calls = @ + 1], "OP_PAUSE"))

\* the rates an application may ask for, in millionths: 0.5 is 500000
Rates == {-1000000, -20, -5, 0, 5, 20, 500000, 999800, 999950, 1000000,
          1000050, 1000200, 2000000}

\* IsRateSupported that takes every rate, as it comes
IsRateSupportedAlways(flRate) == [ok |-> TRUE, rate |-> flRate]

\* MKVSource::IsRateSupported: the rate in millionths, the adjusted rate as
\* the 0 or 1 that m_flRate holds
IsRateSupported(flRate) ==
    IF flRate < 10 /\ flRate > -10 THEN [ok |-> TRUE, rate |-> 0]
    ELSE IF flRate < 1000100 /\ flRate > 999900 THEN [ok |-> TRUE, rate |-> 1]
    ELSE [ok |-> FALSE, rate |-> flRate]

\* MKVSource::SetRate
SetRate(fThin, flRate) ==
    /\ fault = "none"
    /\ Len(opQueue) < MaxQueue
    /\ calls < MaxCalls
    /\ LET adjusted == IsRateSupported(flRate)
           Returns(hr) == [Bundle EXCEPT !.out.rate =
                              <<[fThin |-> fThin, flRate |-> flRate, hr |-> hr]>>]
       IN  IF fThin THEN Commit(Returns("MF_E_THINNING_UNSUPPORTED"))
           ELSE IF ~adjusted.ok THEN Commit(Returns("MF_E_UNSUPPORTED_RATE"))
           ELSE IF adjusted.rate = m_flRate THEN Commit(Returns("S_OK"))
           ELSE Commit(QueueOperation([Returns("S_OK") EXCEPT !.calls = @ + 1],
                          [op |-> "OP_SETRATE", sel |-> {}, startPos |-> 0,
                           rate |-> adjusted.rate, n |-> 0]))

\* MKVSource::Shutdown
ShutdownCall ==
    /\ fault = "none"
    /\ m_state # "STATE_SHUTDOWN"
    /\ Commit(Shutdown(Bundle))

\* MKVStream::RequestSample
RequestSample(i) ==
    /\ fault = "none"
    /\ i \in 1..Len(m_streams)
    /\ m_state # "STATE_SHUTDOWN"
    /\ m_streams[i].state # "stopped"
    /\ m_streams[i].active
    /\ ~(m_streams[i].eos /\ m_streams[i].nSamples = 0)
    /\ m_streams[i].nRequests < MaxRequests
    /\ Commit(DispatchSamples([Bundle EXCEPT !.m_streams[i].nRequests = @ + 1], i))

(***************************************************************************)
(* The byte stream and the work queue.                                     *)
(***************************************************************************)
\* what a read that comes back short may carry
ShortChunks == {8}

\* the byte stream carries out the oldest pending read: it returns the bytes
\* asked for, or what is left of the file, or fewer (chunk)
ByteStreamReadOf(chunk, short) ==
    /\ fault = "none"
    /\ \E i \in 1..Len(reads) :
        /\ reads[i].status = "pending"
        /\ \A j \in 1..(i - 1) : reads[j].status # "pending"
        /\ LET left == IF bsPos >= Len(file) THEN 0 ELSE Len(file) - bsPos
               full == Min(reads[i].cb, left)
               t == reads[i].target
               s == [Bundle EXCEPT !.reads[i].status = "ready",
                                   !.reads[i].n = chunk,
                                   !.bsPos = @ + chunk,
                                   !.shortReads = IF chunk < full THEN @ + 1 ELSE @,
                                   !.m_ReadBuffer.arr = [k \in 1..Len(@) |->
                                       IF k \in (t + 1)..(t + chunk)
                                       THEN file[bsPos + k - t] ELSE @[k]]]
           IN  /\ chunk = full
                  \/ (chunk \in short /\ chunk < full /\ shortReads < MaxShortReads)
               /\ IF reads[i].gen # m_ReadBuffer.gen \/ t + chunk > Len(m_ReadBuffer.arr)
                  THEN Commit(Lose(Bundle, "crash"))
                  ELSE Commit(s)

ByteStreamRead(chunk) == ByteStreamReadOf(chunk, ShortChunks)

\* a test that takes every read for one of the current run
EveryReadIsFresh(tag, counter) == TRUE

\* pState == nullptr || pState->Data().ulVal == m_cRestartCounter
IsFresh(tag, counter) == tag = NoOp \/ tag = counter

\* MKVSource::OnByteStreamRead
OnByteStreamRead(ub) ==
    /\ fault = "none"
    /\ reads # <<>>
    /\ Head(reads).status # "pending"
    /\ LET r == Head(reads)
           s == [Bundle EXCEPT !.reads = Tail(@),
                               !.out.read = <<[tag |-> r.tag, issuedAt |-> r.issuedAt]>>]
           fresh == IsFresh(r.tag, m_cRestartCounter)
       IN  IF m_state = "STATE_SHUTDOWN" THEN Commit(s)
           \* EndRead fails
           ELSE IF r.status = "aborted" THEN Commit(StreamingError(Raise(s)))
           ELSE IF ~fresh THEN Commit(s)
           ELSE IF r.n = 0 THEN Commit(StreamingError(EndOfMPEGStream(s)))
           ELSE Commit(StreamingError(
                    ParseData([s EXCEPT !.m_ReadBuffer = MoveEnd(@, r.n),
                                        !.out.extended = TRUE],
                              Oob(ub), ub)))

\* MKVSource::BeginAsyncOp
BeginAsyncOp(s, pOp) ==
    IF s.m_spCurrentOp # "nullptr" THEN Raise(s)
    ELSE [s EXCEPT !.m_spCurrentOp = pOp.op]

\* CompleteAsyncOp called at the end of the try block only
CompleteAsyncOpUnlessThrown(s, pOp) ==
    IF s.fault # "none" \/ s.exc THEN s
    ELSE IF s.m_spCurrentOp = "nullptr" \/ s.m_spCurrentOp # pOp.op THEN Raise(s)
    ELSE [s EXCEPT !.m_spCurrentOp = "nullptr"]

\* MKVSource::CompleteAsyncOp, called at the end of the try block and in the
\* catch clause, ahead of the throw
CompleteAsyncOp(s, pOp) ==
    IF s.fault # "none" THEN s
    ELSE IF s.m_spCurrentOp = "nullptr" \/ s.m_spCurrentOp # pOp.op THEN Raise(s)
    ELSE [s EXCEPT !.m_spCurrentOp = "nullptr"]

\* the switch of DispatchOperation; every handler calls BeginAsyncOp, runs
\* its try block and calls CompleteAsyncOp
Perform(s, pOp, ub) ==
    LET b == BeginAsyncOp(s, pOp)
        r == IF pOp.op = "OP_START" THEN DoStart(b, pOp)
             ELSE IF pOp.op = "OP_STOP" THEN DoStop(b)
             ELSE IF pOp.op = "OP_PAUSE" THEN DoPause(b)
             ELSE IF pOp.op = "OP_SETRATE" THEN DoSetRate(b, pOp)
             ELSE IF pOp.op = "OP_REQUEST_DATA"
             THEN OnStreamRequestSample(b, Oob(ub), ub)
             ELSE OnEndOfStream(b)
    IN  IF Stopped(b) THEN b ELSE CompleteAsyncOp(r, pOp)

\* DispatchOperation without its test of STATE_SHUTDOWN
DispatchOperationUnchecked(ub) ==
    /\ fault = "none"
    /\ opQueue # <<>>
    /\ LET pOp == Head(opQueue)
           s == [Bundle EXCEPT !.opQueue = Tail(@)]
       IN  Commit(StreamingError(Perform(s, pOp, ub)))

\* MKVSource::DispatchOperation, called by the operation queue with the
\* oldest operation
DispatchOperation(ub) ==
    /\ fault = "none"
    /\ opQueue # <<>>
    /\ LET pOp == Head(opQueue)
           s == [Bundle EXCEPT !.opQueue = Tail(@)]
       IN  IF m_state = "STATE_SHUTDOWN" THEN Commit(s)
           ELSE Commit(StreamingError(Perform(s, pOp, ub)))

StartPositions == {0, 90000}

\* no read asks for more than this
MaxChunk == READ_SIZE + 8

Next ==
    \/ OpenAsync
    \/ \E sel \in SUBSET (1..2), startPos \in StartPositions : Start(sel, startPos)
    \/ Stop
    \/ Pause
    \/ \E flRate \in {0, 1000000} :
           IsRateSupported(flRate).rate # m_flRate /\ SetRate(FALSE, flRate)
    \/ ShutdownCall
    \/ \E i \in 1..2 : RequestSample(i)
    \/ \E chunk \in 0..MaxChunk : ByteStreamRead(chunk)
    \/ \E ub \in Undefined : OnByteStreamRead(ub)
    \/ \E ub \in Undefined : DispatchOperation(ub)

Spec == Init /\ [][Next]_vars

\* the source opened by an application that sets the rate and does nothing
\* else
RateNext ==
    \/ OpenAsync
    \/ \E fThin \in BOOLEAN, flRate \in Rates : SetRate(fThin, flRate)
    \/ \E chunk \in 0..MaxChunk : ByteStreamRead(chunk)
    \/ \E ub \in Undefined : OnByteStreamRead(ub)
    \/ \E ub \in Undefined : DispatchOperation(ub)

SpecRate == InitOn({FileCuesLast}) /\ [][RateNext]_vars

\* the source on the file with the block in Xiph lacing
SpecXiph == InitOn({FileXiph}) /\ [][Next]_vars

\* the source on the file with the long lace
SpecLaced == InitOn({FileLaced}) /\ [][Next]_vars

\* the source on the file with the Cues ahead of the Tracks
SpecCuesFirst == InitOn({FileCuesFirst}) /\ [][Next]_vars


(***************************************************************************)
(* The source as a whole.                                                  *)
(***************************************************************************)
\* C1: once the state is STATE_SHUTDOWN no step changes it, begins a read or
\* delivers a sample
C1_ShutdownIsTerminal ==
    [][m_state = "STATE_SHUTDOWN"
          => /\ m_state' = "STATE_SHUTDOWN"
             /\ out'.issued = <<>>
             /\ out'.delivered = <<>>]_vars

\* after the shutdown a read has completed with an operation still queued
C1_Witness ==
    /\ m_state = "STATE_SHUTDOWN"
    /\ fault = "none"
    /\ out.read # <<>>
    /\ opQueue # <<>>

\* the open has completed with success and the source has not shut down
Opened ==
    /\ fault = "none"
    /\ openedEvent = "set"
    /\ m_state \in {"STATE_STOPPED", "STATE_STARTED", "STATE_PAUSED"}

\* C2: the open completes with success only when the parser has an Info
\* element, a Tracks element with a track and, where the SeekHead names the
\* Cues, a Cues element with a cue point
C2_OpenedAfterInfoTracksCues ==
    Opened => /\ ~m_parser.m_masterData.SegInfo.null
              /\ Len(m_parser.m_masterData.Tracks) > 0
              /\ (\E i \in 1..Len(m_parser.m_masterData.SeekHead) :
                      m_parser.m_masterData.SeekHead[i].elemID = "Cues")
                     => Len(m_parser.m_masterData.Cues) > 0

\* C3: the open does not stay pending: while the state is STATE_OPENING
\* there is a read on its way or completed, or an operation queued, whose
\* handling carries the open on; with none of them only a call of the
\* application can ever end the open
C3_OpenGoesOn ==
    (m_state = "STATE_OPENING" /\ fault = "none")
        => (reads # <<>> \/ opQueue # <<>>)

\* C6: once the open has completed no step changes the SeekHead entries,
\* the SegmentInfo, the Tracks or the Cues of the master data
C6_MasterDataIsReadOnly ==
    [][(Opened /\ Opened')
        => m_parser'.m_masterData = m_parser.m_masterData]_vars

\* C4: a read begun before the restart counter was raised, as Stop raises
\* it, that completes afterwards does not extend the read buffer, is not
\* parsed and has no sample delivered
C4_StaleReadIsDropped ==
    [][(out'.read # <<>> /\ out'.read[1].issuedAt < m_cRestartCounter)
          => /\ ~out'.extended
             /\ ~out'.parsed
             /\ out'.delivered = <<>>]_vars

\* a read begun for a sample request before a Stop has completed after it,
\* unharmed by the Stop, and the source goes on
C4_Witness ==
    /\ out.read # <<>>
    /\ out.read[1].tag # NoOp
    /\ out.read[1].issuedAt < m_cRestartCounter
    /\ m_state = "STATE_STOPPED"
    /\ fault = "none"
    /\ ~out.error

\* the seeks of the byte stream made by the last step
Sought(kind) == \E i \in 1..Len(out.sought) : out.sought[i] = kind

\* C5 as stated: every step that seeks the byte stream, for the jump to an
\* element or to a cue point, for the skip of a payload or for the rewind of
\* Stop, raises the restart counter
C5_EverySeekRaisesCounter ==
    [][(out'.sought # <<>> /\ fault' = "none")
          => m_cRestartCounter' > m_cRestartCounter]_vars

\* C5 amended: the rewind of Stop raises the restart counter by one, and no
\* other step changes it, the jumps and the skip of a payload included
C5_OnlyStopRaisesCounter ==
    [][fault' = "none"
          => m_cRestartCounter' =
                 m_cRestartCounter + (IF Sought("stop")' THEN 1 ELSE 0)]_vars

\* a payload has been skipped after a Stop has raised the counter
C5_Witness ==
    /\ Sought("payload")
    /\ m_cRestartCounter = 1
    /\ fault = "none"

\* C7: every frame ReadPayload takes from the ring is the oldest frame the
\* parser wrote and has not yet been taken, with the size the parser wrote
C7_RingIsFifo ==
    \A i \in 1..Len(out.taken) :
        out.taken[i].written = <<[size |-> out.taken[i].size]>>

\* C8: the frames written to the ring and not yet taken never number more
\* than the ring has slots
C8_RingHoldsEveryFrame ==
    out.held <= m_cirBufferLength

\* the relative timecode of a block, two bytes, as the signed number it is
SignedTimecode(rel) == IF rel >= 32768 THEN rel - 65536 ELSE rel

ZeroByteRead ==
    /\ reads # <<>>
    /\ Head(reads).status = "ready"
    /\ Head(reads).n = 0
    /\ IsFresh(Head(reads).tag, m_cRestartCounter)
    /\ m_state # "STATE_SHUTDOWN"
    /\ out'.read # <<>>
    /\ fault' = "none"

\* C25: the completion of a read with zero bytes sets the parser's
\* end-of-stream flag and leaves no frame in the ring undelivered
C25_EndOfStreamDrainsRing ==
    [][ZeroByteRead => (m_parser'.m_bEOS /\ ringLog' = <<>>)]_vars

\* the step is a call of SetRate that queues nothing and leaves the rate
RateCallChangesNothing == opQueue' = opQueue /\ m_flRate' = m_flRate

NearSupportedRate(flRate) ==
    \/ flRate > -10 /\ flRate < 10
    \/ flRate > 999900 /\ flRate < 1000100

\* the rate is less than 0.00001 from the current rate 0, or less than
\* 0.0001 from the current rate 1
NearCurrentRate(flRate) ==
    IF m_flRate = 0 THEN flRate > -10 /\ flRate < 10
    ELSE flRate > 999900 /\ flRate < 1000100

XiphAhead(B) ==
    \E k \in B.m_begin..(B.m_end - 6) : B.arr[k + 1] = 163 /\ B.arr[k + 6] = 2

\* C26: when ParseBytes raises its error on the block in Xiph lacing, the
\* error is reported, the source stays in use and the block is behind the
\* window, so that the next call parses what follows it
C26_XiphBlockIsSkipped ==
    [][(out'.threw /\ fault' = "none")
        => /\ out'.error
           /\ m_state' # "STATE_SHUTDOWN"
           /\ ~XiphAhead(m_ReadBuffer')]_vars

(***************************************************************************)
(* Parser::FindSeekPoint on its own: a cue list, and calls with a start    *)
(* time.                                                                   *)
(***************************************************************************)
MaxCues == 2

MaxCueTime == 3

MaxCuePos == 2

MaxSeekTime == 4

\* the segment payload offset of the parser the calls are made on
SeekSegmentPosition == 10

CuePoints ==
    [CueTime : 0..MaxCueTime,
     CueTrackPositions : {<<[CueTrack |-> 1, CueClusterPosition |-> p]>> :
                              p \in 1..MaxCuePos}]

CueLists == UNION {[1..n -> CuePoints] : n \in 0..MaxCues}

\* a parser that holds the cue list, TimecodeScale 1000000 and the start
\* position of t milliseconds in units of 100 ns
SeekParser(cues, t) ==
    [NewParser EXCEPT !.m_masterData.Cues = cues,
                      !.m_masterData.SegInfo =
                          [null |-> FALSE, TimecodeScale |-> 1000000, Duration |-> <<>>],
                      !.m_masterData.SegmentPosition = SeekSegmentPosition,
                      !.m_startPosition = t * 10000]

SeekInit ==
    /\ Constructed
    /\ file = <<>>
    /\ unit \in CueLists
    /\ call = <<>>

\* a call of FindSeekPoint; before is the call ahead of it
SeekCall(t, ub) ==
    /\ call' = [fn |-> "FindSeekPoint", t |-> t,
                r |-> FindSeekPoint(SeekParser(unit, t), Oob(ub), ub),
                before |-> IF call = <<>> THEN <<>>
                           ELSE <<[t |-> call.t, r |-> call.r]>>]
    /\ UNCHANGED <<srcVars, unit>>

SeekNext == \E t \in 1..MaxSeekTime, ub \in Undefined : SeekCall(t, ub)

SpecSeek == SeekInit /\ [][SeekNext]_vars

\* the position of the cue point i of the list, as FindSeekPoint returns it
CuePosition(cues, i) ==
    cues[i].CueTrackPositions[1].CueClusterPosition + SeekSegmentPosition

\* C10: on a cue list in the order of its times with a cue point at or
\* before the start time t, the call returns the position of the cue point of
\* the greatest time <= t, the last of them in the list when several have it
C10_GreatestCueNotAfter ==
    (/\ call # <<>>
     /\ \A i, j \in 1..Len(unit) : i < j => unit[i].CueTime <= unit[j].CueTime
     /\ \E i \in 1..Len(unit) : unit[i].CueTime <= call.t)
        => (/\ call.r.fault = "none"
            /\ call.r.pos =
                   CuePosition(unit, SetMax({i \in 1..Len(unit) : unit[i].CueTime <= call.t})))

\* C11: when every cue point of the list is later than the start time, the
\* call returns the position of the first cue point plus the segment offset
C11_FirstCueWhenNonePrecedes ==
    (/\ call # <<>>
     /\ Len(unit) > 0
     /\ \A i \in 1..Len(unit) : unit[i].CueTime > call.t)
        => (call.r.fault = "none" /\ call.r.pos = CuePosition(unit, 1))

\* increasing cue times and positions that do not decrease
SortedCues(cues) ==
    \A i, j \in 1..Len(cues) :
        i < j => /\ cues[i].CueTime < cues[j].CueTime
                 /\ CuePosition(cues, i) <= CuePosition(cues, j)

\* the call returned the position of a cue point that is not after t
ChoseCueNotAfter(cues, t, r) ==
    /\ r.fault = "none"
    /\ \E i \in 1..Len(cues) : cues[i].CueTime <= t /\ r.pos = CuePosition(cues, i)

\* C12: on a sorted cue list with a cue point at or before both start times,
\* each call returns a cue point that is not after its start time, and the
\* call with the later start time does not return the earlier position
C12_SeekMonotone ==
    (/\ call # <<>>
     /\ call.before # <<>>
     /\ SortedCues(unit)
     /\ call.before[1].t <= call.t
     /\ \E i \in 1..Len(unit) : unit[i].CueTime <= call.before[1].t)
        => (/\ ChoseCueNotAfter(unit, call.before[1].t, call.before[1].r)
            /\ ChoseCueNotAfter(unit, call.t, call.r)
            /\ call.before[1].r.pos <= call.r.pos)


(***************************************************************************)
(* Buffer on its own: a buffer of a few bytes and calls of Reserve,        *)
(* MoveStart and MoveEnd, with the bytes a read stores past the data.      *)
(***************************************************************************)
MaxInitialSize == 2

MaxCb == 2

MaxBufferCalls == 4

\* the sizes asked for; -1 is MAXDWORD
Sizes == 0..MaxCb \cup {-1}

CallCount == IF call = <<>> THEN 0 ELSE call.n

BufferInit ==
    /\ Constructed
    /\ file = <<>>
    /\ unit \in {NewBuffer(n) : n \in 1..MaxInitialSize}
    /\ call = <<>>

\* the call made, the buffer it was made on and the call ahead of it
Made(fn, cb, threw) ==
    [fn |-> fn, cb |-> cb, threw |-> threw, before |-> unit,
     prev |-> IF call = <<>> THEN <<>>
              ELSE <<[fn |-> call.fn, cb |-> call.cb, threw |-> call.threw]>>,
     n |-> CallCount + 1]

\* what a call that reserves cb bytes throws: the InvalidArgumentException
\* of Reserve, or the failure of "ref new Array<BYTE>" of 2 GB and more
ReserveFailure(B, cb) ==
    IF ReserveThrows(B, cb) THEN "InvalidArgument"
    ELSE IF cb < 0 THEN "OutOfMemory"
    ELSE "none"

BufferReserve(cb) ==
    /\ CallCount < MaxBufferCalls
    /\ unit' = IF ReserveFailure(unit, cb) = "none" THEN Reserve(unit, cb) ELSE unit
    /\ call' = Made("Reserve", cb, ReserveFailure(unit, cb))
    /\ UNCHANGED srcVars

BufferMoveEnd(cb) ==
    /\ CallCount < MaxBufferCalls
    /\ unit' = IF ReserveFailure(unit, cb) = "none" THEN MoveEnd(unit, cb) ELSE unit
    /\ call' = Made("MoveEnd", cb, ReserveFailure(unit, cb))
    /\ UNCHANGED srcVars

BufferMoveStart(cb) ==
    /\ CallCount < MaxBufferCalls
    /\ unit' = IF MoveStartThrows(unit, cb) THEN unit ELSE MoveStart(unit, cb)
    /\ call' = Made("MoveStart", cb,
                    IF MoveStartThrows(unit, cb) THEN "InvalidArgument" ELSE "none")
    /\ UNCHANGED srcVars

\* a read stores bytes past the data, through DataPtr + DataSize
BufferWrite ==
    /\ CallCount < MaxBufferCalls
    /\ unit.m_end < unit.m_count
    /\ unit' = [unit EXCEPT !.arr = [i \in 1..Len(unit.arr) |->
                                        IF i > unit.m_end /\ i <= unit.m_count
                                        THEN 16 * (CallCount + 1) + (i % 16)
                                        ELSE unit.arr[i]]]
    /\ call' = Made("Write", 0, "none")
    /\ UNCHANGED srcVars

BufferNext ==
    \/ \E cb \in Sizes : BufferReserve(cb)
    \/ \E cb \in Sizes : BufferMoveEnd(cb)
    \/ \E cb \in Sizes : BufferMoveStart(cb)
    \/ BufferWrite

SpecBuffer == BufferInit /\ [][BufferNext]_vars

\* the data of the buffer: DataSize bytes from DataPtr
Data(B) == [i \in 1..DataSize(B) |-> B.arr[B.m_begin + i]]

\* C13: after any calls of Reserve, MoveStart and MoveEnd, failed ones
\* included, 0 <= m_begin <= m_end <= m_count, and m_count is not above
\* m_allocated, the length of the array
C13_BufferPositions ==
    /\ 0 <= unit.m_begin
    /\ unit.m_begin <= unit.m_end
    /\ unit.m_end <= unit.m_count
    /\ unit.m_count <= unit.m_allocated
    /\ unit.m_allocated = Len(unit.arr)

\* a failed call and a reallocation lie behind, and data has been consumed
C13_Witness ==
    /\ call # <<>>
    /\ call.n >= 3
    /\ call.threw # "none"
    /\ unit.gen >= 2
    /\ unit.m_begin > 0
    /\ unit.m_end > unit.m_begin

\* C14: after Reserve(cb) returns, m_count - m_end >= cb, DataSize is what
\* it was and the data bytes are the same in the same order
C14_ReserveKeepsData ==
    (call # <<>> /\ call.fn = "Reserve" /\ call.threw = "none")
        => /\ unit.m_count - unit.m_end >= call.cb
           /\ DataSize(unit) = DataSize(call.before)
           /\ Data(unit) = Data(call.before)

\* Reserve has reallocated and moved data that did not start at the array
C14_Witness ==
    /\ call # <<>>
    /\ call.fn = "Reserve"
    /\ call.threw = "none"
    /\ unit.gen > call.before.gen
    /\ call.before.m_begin > 0
    /\ DataSize(unit) > 0

\* C15: MoveStart(cb) with cb above DataSize fails with the invalid-argument
\* error and leaves m_begin and m_end as they were; otherwise it adds cb to
\* m_begin and leaves m_end
C15_MoveStart ==
    (call # <<>> /\ call.fn = "MoveStart")
        => IF UGt(call.cb, DataSize(call.before))
           THEN /\ call.threw = "InvalidArgument"
                /\ unit.m_begin = call.before.m_begin
                /\ unit.m_end = call.before.m_end
           ELSE /\ call.threw = "none"
                /\ unit.m_begin = call.before.m_begin + call.cb
                /\ unit.m_end = call.before.m_end

\* MoveStart has consumed all the data there was
C15_Witness ==
    /\ call # <<>>
    /\ call.fn = "MoveStart"
    /\ call.cb > 0
    /\ call.cb = DataSize(call.before)
    /\ unit.m_begin = unit.m_end

\* C16: the second of two consecutive calls Reserve(n) leaves the buffer as
\* it is: no new array, no byte moved, m_begin, m_end and m_count the same
C16_ReserveTwice ==
    (/\ call # <<>>
     /\ call.fn = "Reserve"
     /\ call.threw = "none"
     /\ call.prev # <<>>
     /\ call.prev[1] = [fn |-> "Reserve", cb |-> call.cb, threw |-> "none"])
        => unit = call.before

\* the first of the two calls had to move the data
C16_Witness ==
    /\ call # <<>>
    /\ call.fn = "Reserve"
    /\ call.threw = "none"
    /\ call.cb > 0
    /\ call.prev # <<>>
    /\ call.prev[1] = [fn |-> "Reserve", cb |-> call.cb, threw |-> "none"]
    /\ call.n >= 4
    /\ unit.m_begin = 0
    /\ unit.m_end > 0
    /\ unit.gen >= 2

(***************************************************************************)
(* The VINT readers on their own: a byte string that holds one VINT of 1   *)
(* to 8 bytes, or a first byte of 0, and the bytes behind it.              *)
(***************************************************************************)
\* the bits below the marker in the first bytes tried
LowBits == {0, 1, 2, 10, 127}

\* the bytes tried behind the first one, fewer of them in the wide VINTs
TailBytes(w) == IF w <= 4 THEN {0, 32, 255} ELSE {0, 255}

\* the bytes behind the VINT
Slack == <<85>>

FirstBytes(w) ==
    {Pow2(8 - w) + x : x \in {y \in LowBits \cup {Pow2(8 - w) - 1} : y < Pow2(8 - w)}}

Vints(w) ==
    {<<b>> \o t : b \in FirstBytes(w), t \in [1..(w - 1) -> TailBytes(w)]}

VintInputs ==
    {v \o Slack : v \in UNION {Vints(w) : w \in 1..8}
                        \cup {<<26, 69, 223, 163>>, <<0>>, <<0, 255>>}}

VintInit ==
    /\ Constructed
    /\ file = <<>>
    /\ unit \in VintInputs
    /\ call = <<>>

\* pData at the first byte, cbLen the bytes there are, *pAte 0
VintCursor == [p |-> 0, fault |-> "none", cbLen |-> Len(unit), ate |-> 0]

\* what a negative double becomes as a DWORD
Negatives == {"wrap", "zero"}

\* every input holds its VINT whole, so that no call reads past the bytes
\* and the byte found there does not matter
ReadNumberCall(unmodified, _signed, neg) ==
    /\ call' = [fn |-> "ReadMatroskaNumber", unmodified |-> unmodified,
                _signed |-> _signed,
                r |-> ReadMatroskaNumber(unit, VintCursor, unmodified, _signed,
                                         -1, neg)]
    /\ UNCHANGED <<srcVars, unit>>

ParseNumberCall(isSigned, unModified, neg) ==
    /\ call' = [fn |-> "ParseMatroskaNumber", unmodified |-> unModified,
                _signed |-> isSigned,
                r |-> ParseMatroskaNumber(unit, VintCursor, isSigned, unModified,
                                          -1, neg)]
    /\ UNCHANGED <<srcVars, unit>>

VintNext ==
    \/ \E u, g \in BOOLEAN, neg \in Negatives : ReadNumberCall(u, g, neg)
    \/ \E u, g \in BOOLEAN, neg \in Negatives : ParseNumberCall(g, u, neg)

SpecVint == VintInit /\ [][VintNext]_vars

\* the width the first byte announces: the place of its highest 1 bit
\* counted from the top, and 0 when it has none
MarkerWidth(b) ==
    IF b = 0 THEN 0 ELSE CHOOSE w \in 1..8 : b >= Pow2(8 - w) /\ b < Pow2(9 - w)

VintWidth == MarkerWidth(unit[1])

RECURSIVE BigEndian(_)
BigEndian(bs) ==
    IF bs = <<>> THEN 0
    ELSE BigEndian(SubSeq(bs, 1, Len(bs) - 1)) * 256 + bs[Len(bs)]

\* the bytes of the VINT, the marker bit kept or cleared
VintBytes(raw) ==
    [i \in 1..VintWidth |->
        IF i = 1 /\ ~raw THEN unit[1] - Pow2(8 - VintWidth) ELSE unit[i]]

\* a call of ReadMatroskaNumber in raw or value mode on a VINT of 1 to 4 bytes
NarrowCall ==
    /\ call # <<>>
    /\ call.fn = "ReadMatroskaNumber"
    /\ ~call._signed
    /\ VintWidth \in 1..4

\* length = w, w bytes consumed
ConsumedWidth ==
    /\ call.r.c.fault = "none"
    /\ call.r.length = VintWidth
    /\ call.r.c.cbLen = Len(unit) - VintWidth
    /\ call.r.c.ate = VintWidth
    /\ call.r.c.p = VintWidth

\* the value bits of the VINT are all 1
AllOnes ==
    /\ unit[1] = Pow2(9 - VintWidth) - 1
    /\ \A i \in 2..VintWidth : unit[i] = 255

\* C17 as stated: for a VINT of 1 to 4 bytes ReadMatroskaNumber returns
\* length = w, consumes w bytes and returns the big-endian integer of the
\* bytes, the marker kept in raw mode and cleared in value mode
C17_NarrowVintAsStated ==
    NarrowCall => /\ ConsumedWidth
                  /\ call.r.id = BigEndian(VintBytes(call.unmodified))

\* C17 amended: the same, but in value mode a VINT whose value bits are all
\* 1 comes back as the DWORD 0xFFFFFFFF, the unknown-length value
C17_NarrowVint ==
    NarrowCall => /\ ConsumedWidth
                  /\ call.r.id = IF ~call.unmodified /\ AllOnes THEN -1
                                 ELSE BigEndian(VintBytes(call.unmodified))

\* 1A 45 DF A3 read raw
C17_Witness ==
    /\ NarrowCall
    /\ call.unmodified
    /\ VintWidth = 4
    /\ SubSeq(unit, 1, 4) = <<26, 69, 223, 163>>
    /\ call.r.id = 440786851
    /\ call.r.length = 4

\* a call of ReadMatroskaNumber in value mode on a VINT of 5 to 8 bytes
WideCall ==
    /\ call # <<>>
    /\ call.fn = "ReadMatroskaNumber"
    /\ ~call._signed
    /\ ~call.unmodified
    /\ VintWidth \in 5..8

\* the value of a VINT of 5 to 8 bytes above its low 32 bits
HighPart == BigEndian(SubSeq(VintBytes(FALSE), 1, VintWidth - 4))

\* the low 32 bits of the value, as the DWORD of that bit pattern
LowPart ==
    LET bs == SubSeq(unit, VintWidth - 3, VintWidth)
    IN  (IF bs[1] >= 128 THEN bs[1] - 256 ELSE bs[1]) * 16777216
            + BigEndian(SubSeq(bs, 2, 4))

\* C18: a VINT of 5 to 8 bytes is read without loss: the DWORD returned is
\* the whole value, so nothing of the value lies above its low 32 bits, and
\* the unknown-length value 0xFFFFFFFF is returned for all-ones bits only
C18_WideVintWithoutLoss ==
    WideCall => /\ ConsumedWidth
                /\ HighPart = 0
                /\ call.r.id = LowPart
                /\ (call.r.id = -1 => AllOnes)

\* C19: on a first byte of 0 the call ends with the format error, and
\* returns no value
C19_ZeroFirstByteIsAnError ==
    (call # <<>> /\ unit[1] = 0 /\ ~(call.unmodified /\ call._signed))
        => call.r.c.fault = "throw"

\* a signed call on a VINT of 1 to 4 bytes
SignedCall ==
    /\ call # <<>>
    /\ call._signed
    /\ ~call.unmodified
    /\ VintWidth \in 1..4

\* C20: a signed call returns the value with the marker cleared less
\* 2^(7w-1) - 1, as the DWORD of that number
C20_SignedVint ==
    SignedCall => /\ call.r.c.fault = "none"
                  /\ call.r.id = BigEndian(VintBytes(FALSE)) - (Pow2(7 * VintWidth - 1) - 1)
(***************************************************************************)
(* Parser::ReadEbmlElementTree2 on its own: the content of a master        *)
(* element, made of up to MaxChildren children, and the bytes behind it.   *)
(***************************************************************************)
MaxChildren == 3

\* the children tried: a Timecode of value 7, a Void of two bytes, an
\* element of an id the table does not have, a CuePoint with a CueTime, a
\* Position of size 0, a Timecode that declares 4 bytes and has one, and a
\* Timecode of unknown length
ChildBytes ==
    [uint |-> Elem(<<231>>, <<7>>),
     binary |-> Elem(<<236>>, <<1, 2>>),
     unknown |-> Elem(<<129>>, <<9>>),
     master |-> Elem(<<187>>, Elem(<<179>>, <<5>>)),
     empty |-> Elem(<<167>>, <<>>),
     oversized |-> <<231, 132, 1>>,
     unsized |-> <<231, 255, 1>>]

ChildKinds == DOMAIN ChildBytes

\* the children whose size is known, not 0, and within the master
WellFormedKinds == {"uint", "binary", "unknown", "master"}

\* the bytes that follow the master in the buffer
TreeSlack == <<85, 85, 85, 85, 85, 85>>

RECURSIVE Concat(_)
Concat(ss) == IF ss = <<>> THEN <<>> ELSE Head(ss) \o Concat(Tail(ss))

TreeInputs ==
    {[kinds |-> ks,
      total_size |-> Len(Concat([i \in 1..Len(ks) |-> ChildBytes[ks[i]]])),
      mem |-> Concat([i \in 1..Len(ks) |-> ChildBytes[ks[i]]]) \o TreeSlack] :
        ks \in UNION {[1..n -> ChildKinds] : n \in 1..MaxChildren}}

TreeInit ==
    /\ Constructed
    /\ file = <<>>
    /\ unit \in TreeInputs
    /\ call = <<>>

\* pData at the first byte of the content, cbLen the bytes of the buffer
TreeCursor == [p |-> 0, fault |-> "none", cbLen |-> Len(unit.mem), ate |-> 0]

TreeCall(ub) ==
    /\ call' = [fn |-> "ReadEbmlElementTree2",
                r |-> ReadEbmlElementTree2(unit.mem, TreeCursor, unit.total_size,
                                           Oob(ub))]
    /\ UNCHANGED <<srcVars, unit>>

TreeNext == \E ub \in Undefined : TreeCall(ub)

SpecTree == TreeInit /\ [][TreeNext]_vars

\* the node each well-formed child stands for
ChildNode ==
    [uint |-> [NoElement EXCEPT !.name = "Timecode", !.type = _UNSIGNED, !.data = 7],
     binary |-> [NoElement EXCEPT !.name = "Void", !.type = BINARY,
                                  !.data = <<1, 2>>, !.length = 2],
     unknown |-> [NoElement EXCEPT !.type = BINARY, !.data = <<9>>, !.length = 1],
     master |-> [NoElement EXCEPT !.name = "CuePoint", !.type = MASTER,
                    !.children = <<[NoElement EXCEPT !.name = "CueTime",
                                       !.type = _UNSIGNED, !.data = 5]>>]]

TreeCalled == call # <<>> /\ call.fn = "ReadEbmlElementTree2"

WellFormed == \A i \in 1..Len(unit.kinds) : unit.kinds[i] \in WellFormedKinds

\* the window has advanced by total_size and the call has returned
ConsumedTotalSize ==
    /\ call.r.c.fault = "none"
    /\ call.r.c.ate = unit.total_size
    /\ call.r.c.p = unit.total_size
    /\ call.r.c.cbLen = Len(unit.mem) - unit.total_size

\* the children, with their ids, in the order of the file
ListsTheChildren ==
    call.r.el.children = [i \in 1..Len(unit.kinds) |-> ChildNode[unit.kinds[i]]]

\* C21: ReadEbmlElementTree2 returns having advanced the window by exactly
\* total_size bytes, whatever the master holds, and for well-formed children
\* it lists the children in file order
C21_TreeConsumesTotalSize ==
    TreeCalled => /\ ConsumedTotalSize
                  /\ WellFormed => ListsTheChildren

\* the last child declares more bytes than the master has left, and the
\* children before it are well formed
LastChildOversized ==
    /\ unit.kinds[Len(unit.kinds)] = "oversized"
    /\ \A i \in 1..(Len(unit.kinds) - 1) : unit.kinds[i] \in WellFormedKinds

\* C29: a child that declares more than the master has left ends the
\* master: the rest of the master is skipped, no child is read or appended
\* any more, and the call returns to the parent at the end of the master
C29_OversizedChildEndsMaster ==
    (TreeCalled /\ LastChildOversized)
        => /\ ConsumedTotalSize
           /\ call.r.el.children
                  = [i \in 1..(Len(unit.kinds) - 1) |-> ChildNode[unit.kinds[i]]]

\* an Unsigned child of size 0 among well-formed children
HasEmptyChild ==
    /\ \E i \in 1..Len(unit.kinds) : unit.kinds[i] = "empty"
    /\ \A i \in 1..Len(unit.kinds) : unit.kinds[i] \in WellFormedKinds \cup {"empty"}

\* C30: an Unsigned element of size 0 in a master gives a node of value 0,
\* and the reader goes on with the next sibling
C30_EmptyUnsignedIsZero ==
    (TreeCalled /\ HasEmptyChild)
        => /\ ConsumedTotalSize
           /\ Len(call.r.el.children) = Len(unit.kinds)
           /\ \A i \in 1..Len(unit.kinds) :
                  IF unit.kinds[i] = "empty"
                  THEN /\ call.r.el.children[i].type = _UNSIGNED
                       /\ call.r.el.children[i].data = 0
                  ELSE call.r.el.children[i] = ChildNode[unit.kinds[i]]

(***************************************************************************)
(* Parser::ParseBytes on its own: a buffer that holds whole top-level      *)
(* elements, parsed by a parser that has just been constructed.            *)
(***************************************************************************)
MaxElements == 2

\* the elements tried: an Info with a TimecodeScale of 1000000, an Info that
\* has a MuxingApp only, an Info with a child of an id the table does not
\* have ahead of its TimecodeScale, an element of an id the table does not
\* have, and a Void
TopBytes ==
    [info |-> InfoElem,
     bare |-> Elem(IdInfo, Elem(<<77, 128>>, <<97>>)),
     nest |-> Elem(IdInfo, Elem(<<129>>, <<9>>)
                           \o Elem(<<42, 215, 177>>, <<15, 66, 64>>)),
     unknown |-> Elem(<<129>>, <<9>>),
     void |-> Elem(<<236>>, <<1, 2>>)]

TopKinds == DOMAIN TopBytes

TopInputs ==
    {[kinds |-> ks, lace |-> 0, first |-> <<>>, deltas |-> <<>>,
      mem |-> Concat([i \in 1..Len(ks) |-> TopBytes[ks[i]]])] :
        ks \in UNION {[1..n -> TopKinds] : n \in 1..MaxElements}}

\* the frames of a laced block, as bytes
FixedPayload == <<1, 2, 3, 4, 5, 6>>

EbmlPayload == <<1, 2, 3, 4, 5, 6, 7, 8, 9, 10, 11, 12>>

\* a SimpleBlock of track 1 with fixed-size lacing and the lace-count byte n
FixedInputs ==
    {[kinds |-> <<"fixed">>, lace |-> n, first |-> <<>>, deltas |-> <<>>,
      mem |-> BlockElem(1, <<0, 0>>, 4, <<n>> \o FixedPayload)] : n \in 0..255}

\* the first size of an EBML lacing: 3 in one byte, 3 in two bytes
FirstSizes == {<<131>>, <<64, 3>>}

\* the deltas of an EBML lacing: 0, +1, -1 in one byte, +1 in two bytes
Deltas == {<<191>>, <<192>>, <<190>>, <<96, 0>>}

MaxLace == 3

\* a SimpleBlock of track 1 with EBML lacing, the lace-count byte n, the
\* first size and n - 1 deltas
EbmlInputs ==
    {[kinds |-> <<"ebml">>, lace |-> Len(ds) + 1, first |-> f, deltas |-> ds,
      mem |-> BlockElem(1, <<0, 0>>, 6,
                        <<Len(ds) + 1>> \o f \o Concat(ds) \o EbmlPayload)] :
        f \in FirstSizes,
        ds \in UNION {[1..k -> Deltas] : k \in 0..(MaxLace - 1)}}

\* the track numbers tried, the last three in two bytes
TrackNumbers == {1, 2, 126, 128, 200, 300}

\* a track number as a VINT of one byte, or of two from 127 on
TrackVint(t) == IF t < 127 THEN <<128 + t>> ELSE <<64 + t \div 256, t % 256>>

MaxFrame == 3

\* a SimpleBlock without lacing, of the relative timecode 16 and with the
\* keyframe flag, that holds one frame of lace bytes
TrackInputs ==
    {[kinds |-> <<"track">>, lace |-> n, first |-> TrackVint(t), deltas |-> <<>>,
      mem |-> Elem(<<163>>, TrackVint(t) \o <<0, 16, 128>> \o [i \in 1..n |-> i])] :
        t \in TrackNumbers, n \in 1..MaxFrame}

BytesInit ==
    /\ Constructed
    /\ file = <<>>
    /\ unit \in TopInputs \cup FixedInputs \cup EbmlInputs \cup TrackInputs
    /\ call = <<>>

\* MKVSource::ParseData: ParseBytes(DataPtr(), DataSize(), &cbAte, ...)
BytesCall(ub) ==
    /\ call' = [fn |-> "ParseBytes",
                r |-> ParseBytes(unit.mem, 0, Len(unit.mem), NewParser, Oob(ub))]
    /\ UNCHANGED <<srcVars, unit>>

BytesNext == \E ub \in Undefined : BytesCall(ub)

SpecBytes == BytesInit /\ [][BytesNext]_vars

BytesCalled == call # <<>> /\ call.fn = "ParseBytes"

\* the buffer holds an element of an unknown id and an Info behind it
UnknownAhead == unit.kinds = <<"unknown", "info">>

\* the Info of the buffer has been read
InfoRead ==
    /\ call.r.c.fault = "none"
    /\ call.r.c.ate = Len(unit.mem)
    /\ ~call.r.P.m_masterData.SegInfo.null
    /\ call.r.P.m_masterData.SegInfo.TimecodeScale = 1000000

\* C22: an id the table does not have never aborts parsing: in a master it
\* is read as binary of its declared size, at top level ParseBytes steps
\* over it and goes on with the next element
C22_UnknownIdIsSteppedOver ==
    (BytesCalled /\ (UnknownAhead \/ unit.kinds = <<"nest">>)) => InfoRead

\* C23: an Info without a TimecodeScale leaves the TimecodeScale of the
\* segment at 1000000
C23_TimecodeScaleDefault ==
    (BytesCalled /\ unit.kinds = <<"bare">>)
        => /\ call.r.c.fault = "none"
           /\ ~call.r.P.m_masterData.SegInfo.null
           /\ call.r.P.m_masterData.SegInfo.TimecodeScale = 1000000

\* the sizes the call has put into the ring
Queued == [i \in 1..Len(call.r.P.wrote) |-> call.r.P.wrote[i].size]

\* a VINT of one or two bytes with its marker cleared
Unmarked(bytes) ==
    IF Len(bytes) = 1 THEN bytes[1] - 128 ELSE (bytes[1] - 64) * 256 + bytes[2]

\* a signed VINT of one or two bytes: the value less 2^(7w-1) - 1
Unbiased(bytes) == Unmarked(bytes) - (IF Len(bytes) = 1 THEN 63 ELSE 8191)

\* the sizes of the frames but the last: the first size, then each the one
\* before it plus its delta
RECURSIVE LaceSizes(_, _)
LaceSizes(first, deltas) ==
    IF deltas = <<>> THEN <<Unmarked(first)>>
    ELSE LET before == LaceSizes(first, SubSeq(deltas, 1, Len(deltas) - 1))
         IN  Append(before, before[Len(before)] + Unbiased(deltas[Len(deltas)]))

RECURSIVE Sum(_)
Sum(q) == IF q = <<>> THEN 0 ELSE Head(q) + Sum(Tail(q))

\* the sizes of an EBML lacing as Matroska defines them
EbmlSizes ==
    LET sizes == LaceSizes(unit.first, unit.deltas)
    IN  Append(sizes, Len(EbmlPayload) - Sum(sizes))

\* C27: a block with EBML lacing and the lace count n queues n + 1 sizes: the
\* first read as a VINT, the following but the last each the size before
\* plus the unbiased delta, the last the bytes that remain
C27_EbmlLacingSizes ==
    (BytesCalled /\ unit.kinds = <<"ebml">>)
        => /\ call.r.c.fault = "none"
           /\ Len(Queued) = unit.lace + 1
           /\ Queued = EbmlSizes

\* C28: a block with fixed-size lacing and the lace-count byte n queues n + 1
\* frames, for every n of 0..255, each of the size of the bytes behind the
\* lace-count byte divided by n + 1
C28_FixedLacingFrames ==
    (BytesCalled /\ unit.kinds = <<"fixed">>)
        => /\ call.r.c.fault = "none"
           /\ Queued = [i \in 1..(unit.lace + 1) |->
                           Len(FixedPayload) \div (unit.lace + 1)]

(***************************************************************************)
(* Parser::ReadEbmlElementTree2 on a master with one number in it: a       *)
(* ReferenceBlock or a TrackOffset (Signed in the table) or a Timecode     *)
(* (Unsigned), of 1 to 8 bytes.                                            *)
(***************************************************************************)
\* the ids tried: ReferenceBlock, TrackOffset, Timecode
NumberIds == {<<251>>, <<83, 127>>, <<231>>}

SignedIds == {<<251>>, <<83, 127>>}

\* the low bytes of a payload
LowBytes == {0, 1, 127, 128, 255}

MaxLowBytes == 2

MaxSignBytes == 6

\* the payloads tried: up to MaxSignBytes bytes FF, then the low bytes
Payloads ==
    {[i \in 1..k |-> 255] \o t :
        k \in 0..MaxSignBytes,
        t \in UNION {[1..m -> LowBytes] : m \in 1..MaxLowBytes}}

NumberInputs ==
    {[kinds |-> <<"number">>, id |-> id, payload |-> pl,
      total_size |-> Len(Elem(id, pl)),
      mem |-> Elem(id, pl) \o TreeSlack] : id \in NumberIds, pl \in Payloads}

NumberInit ==
    /\ Constructed
    /\ file = <<>>
    /\ unit \in NumberInputs
    /\ call = <<>>

SpecNumber == NumberInit /\ [][TreeNext]_vars

\* the big-endian bytes as a two's-complement number whose top bit is set
RECURSIVE TwosComplement(_)
TwosComplement(bs) ==
    IF Len(bs) = 1 THEN bs[1] - 256
    ELSE TwosComplement(SubSeq(bs, 1, Len(bs) - 1)) * 256 + bs[Len(bs)]

\* a Signed element whose first payload byte has its top bit set
NegativeRead ==
    /\ TreeCalled
    /\ unit.id \in SignedIds
    /\ unit.payload[1] >= 128

\* C31: a Signed element whose first payload byte has its top bit set
\* decodes to the negative two's-complement value of its bytes, for every
\* size of 1 to 8
C31_SignedIsSignExtended ==
    NegativeRead
        => /\ call.r.c.fault = "none"
           /\ Len(call.r.el.children) = 1
           /\ call.r.el.children[1].data = TwosComplement(unit.payload)

(***************************************************************************)
(* The jump at the first Cluster while the source is opening.              *)
(***************************************************************************)
\* the handler has moved the byte stream to the parser's jump target
Jumped(sought) == \E i \in 1..Len(sought) : sought[i] = "jump"

\* the SeekHead entries whose element the parser does not have
MissingEntries(P) ==
    {i \in 1..Len(P.m_masterData.SeekHead) : SeekMissing(P.m_masterData, i)}

\* a step of the opening source that jumps
JumpWhileOpening ==
    /\ m_state = "STATE_OPENING"
    /\ fault' = "none"
    /\ Jumped(out'.sought)

\* the jump goes to the segment position plus the SeekPosition of an entry
\* whose element is missing, the byte stream is there, the window is empty
\* and the next read is on its way
JumpsToMissing ==
    /\ \E i \in MissingEntries(m_parser') :
           m_parser'.m_jumpTo = m_parser'.m_masterData.SeekHead[i].SeekPosition
                                    + m_parser'.m_masterData.SegmentPosition
    /\ ~m_parser'.m_jumpFlag
    /\ ~m_parser'.m_isFinishedParsingMaster
    /\ bsPos' = ClampPos(m_parser'.m_jumpTo)
    /\ DataSize(m_ReadBuffer') = 0
    /\ reads' # <<>>
    /\ reads'[Len(reads')].status = "pending"

\* a SeekHead that points at the Info, the Tracks and the Cues, all of them
\* ahead of the one Cluster
FileSeekAll ==
    EbmlHeader \o SegmentHeader
        \o SeekHeadOf(SeekEntry(IdInfo, 47) \o SeekEntry(IdTracks, 59)
                          \o SeekEntry(IdCues, 85))
        \o InfoElem \o TracksOf(TrackEntry(2)) \o CuesOf(CuePointElem(5, 103))
        \o ClusterHeaderOf(5)
        \o BlockElem(2, <<0, 0>>, 128, <<9>>)

SpecJump == InitOn({FileCuesLast, FileSeekAll}) /\ [][Next]_vars

\* the parser, not the end of the file, marks the master data complete
ParserFinishesMaster ==
    /\ ~m_parser.null
    /\ ~m_parser.m_isFinishedParsingMaster
    /\ ~m_parser'.null
    /\ m_parser'.m_isFinishedParsingMaster
    /\ \A i \in 1..Len(out'.sought) : out'.sought[i] # "cluster"

\* C32: at the first Cluster of an opening source the parser jumps to the
\* segment position plus the SeekPosition of a SeekHead entry whose element
\* it does not have, and the source moves the byte stream there and empties
\* the window; it marks the master data complete only when no entry is
\* missing, and then never jumps for that reason again
C32_JumpAtFirstCluster ==
    [][/\ JumpWhileOpening => JumpsToMissing
       /\ ParserFinishesMaster => MissingEntries(m_parser') = {}
       /\ (~m_parser.null /\ m_parser.m_isFinishedParsingMaster
               /\ Jumped(out'.sought))
              => out'.seek # <<>>]_vars

C32_Witness ==
    /\ file = FileCuesLast
    /\ m_state = "STATE_OPENING"
    /\ fault = "none"
    /\ Jumped(out.sought)
    /\ bsPos = 112 + m_parser.m_masterData.SegmentPosition
    /\ DataSize(m_ReadBuffer) = 0

(***************************************************************************)
(* Parser::ParseBytes on a window that ends anywhere in the file: the      *)
(* first cbLen bytes of a file at the start of the array of the read       *)
(* buffer, and behind them what the array holds.                           *)
(***************************************************************************)
\* behind the window: the zeros of Buffer::Allocate, or bytes left by an
\* earlier read
Behind == {<<0, 0, 0, 0, 0, 0, 0, 0>>, <<85, 85, 85, 85, 85, 85, 85, 85>>}

WindowFiles == {FileCuesLast, FileLaced}

WindowInputs ==
    UNION {{[cbLen |-> n, mem |-> SubSeq(f, 1, n) \o b] :
                n \in 4..Len(f), b \in Behind} : f \in WindowFiles}

WindowInit ==
    /\ Constructed
    /\ file = <<>>
    /\ unit \in WindowInputs
    /\ call = <<>>

\* MKVSource::ParseData: ParseBytes(DataPtr(), DataSize(), &cbAte, ...)
WindowCall(ub) ==
    /\ call' = [fn |-> "ParseBytes",
                r |-> ParseBytes(unit.mem, 0, unit.cbLen, NewParser, Oob(ub))]
    /\ UNCHANGED <<srcVars, unit>>

WindowNext == \E ub \in Undefined : WindowCall(ub)

SpecWindow == WindowInit /\ [][WindowNext]_vars

\* the call has returned
WindowReturned == call # <<>> /\ call.fn = "ParseBytes" /\ call.r.c.fault = "none"

\* C33: on every return of ParseBytes the bytes reported as consumed are not
\* more than the bytes given, wherever the window ends
C33_AteWithinWindow ==
    WindowReturned => ~UGt(call.r.c.ate, unit.cbLen)

(***************************************************************************)
(* The window of an opening source and the file.                           *)
(***************************************************************************)
\* the bytes the byte stream has read for reads not yet handed to
\* OnByteStreamRead
RECURSIVE ReadyBytes(_)
ReadyBytes(rs) ==
    IF rs = <<>> THEN 0
    ELSE (IF Head(rs).status = "ready" THEN Head(rs).n ELSE 0) + ReadyBytes(Tail(rs))

\* the file offsets of the first byte behind the window and of its first
\* byte, were the window the bytes of the file ahead of the position of the
\* byte stream
WindowEnd == bsPos - ReadyBytes(reads)

WindowStart == WindowEnd - DataSize(m_ReadBuffer)

\* the window holds the bytes of the file from WindowStart on
WindowIsOfFile ==
    /\ WindowStart >= 0
    /\ \A k \in 1..DataSize(m_ReadBuffer) :
           /\ WindowStart + k <= Len(file)
           /\ m_ReadBuffer.arr[m_ReadBuffer.m_begin + k] = file[WindowStart + k]

\* the elements of FileCuesLast and FileTruncated up to the first Cluster
LeadingElements ==
    <<EbmlHeader, SegmentHeader,
      SeekHeadOf(SeekEntry(IdInfo, 33) \o SeekEntry(IdCues, 112)),
      InfoElem, TracksOf(TrackEntry(2))>>

\* the file offset of the element k + 1, or of the first Cluster
ElementStart(k) == Len(Concat(SubSeq(LeadingElements, 1, k)))

FirstCluster == ElementStart(Len(LeadingElements))

\* the source is opening and has not come to the first Cluster
BeforeFirstCluster ==
    /\ m_state = "STATE_OPENING"
    /\ fault = "none"
    /\ file \in {FileCuesLast, FileTruncated}
    /\ WindowStart <= FirstCluster

\* the elements ahead of the window have been parsed once, the others not
ParsedOnce ==
    LET md == m_parser.m_masterData
    IN  /\ Len(md.SeekHead) = IF WindowStart >= ElementStart(3) THEN 2 ELSE 0
        /\ md.SegInfo.null = (WindowStart < ElementStart(4))
        /\ Len(md.Tracks) = IF WindowStart >= ElementStart(5) THEN 1 ELSE 0
        /\ md.Cues = <<>>

WideTrack == BytesCalled /\ unit.kinds = <<"track">> /\ Len(unit.first) = 2

\* C35: the track number of a SimpleBlock is read as a VINT of any width:
\* for a track number of two bytes the current stream is that number, the
\* relative timecode and the flags are those behind the VINT, and the frame
\* is the block less its whole header
C35_WideTrackNumber ==
    WideTrack
        => /\ call.r.c.fault = "none"
           /\ call.r.P.m_currentStream = Unmarked(unit.first)
           /\ call.r.P.m_currentTimeStamp = 16
           /\ call.r.P.m_isCurrentKeyFrame
           /\ Queued = <<unit.lace>>

(***************************************************************************)
(* MKVSource::DoPause.                                                     *)
(***************************************************************************)
\* DispatchOperation takes a Pause from the queue of a source that has not
\* shut down
PauseDispatched ==
    /\ opQueue # <<>>
    /\ Head(opQueue).op = "OP_PAUSE"
    /\ opQueue' = Tail(opQueue)
    /\ m_state # "STATE_SHUTDOWN"
    /\ fault' = "none"

\* C36: a Pause dispatched in STATE_STARTED moves the source to
\* STATE_PAUSED; dispatched in any other state it fails with an error and
\* leaves the state as it is, so that a Pause does not end an open in
\* progress
C36_PauseOnlyWhenStarted ==
    [][PauseDispatched
          => IF m_state = "STATE_STARTED"
             THEN m_state' = "STATE_PAUSED" /\ ~out'.error
             ELSE m_state' = m_state /\ out'.error]_vars

(***************************************************************************)
(* MKVSource::BeginAsyncOp and MKVSource::CompleteAsyncOp.                 *)
(***************************************************************************)
\* C37: the operations are serialized: whenever DispatchOperation has
\* returned, with success or with an error, no operation is current, so
\* that the next one begins with the current operation null
C37_OperationsSerialized ==
    fault = "none" => m_spCurrentOp = "nullptr"

\* an operation has failed in a source that is open, and has been completed
C37_Witness ==
    /\ fault = "none"
    /\ m_state = "STATE_STOPPED"
    /\ out.error
    /\ out.read = <<>>
    /\ m_spCurrentOp = "nullptr"

(***************************************************************************)
(* The Segment header behind a read that ends ahead of it.                 *)
(***************************************************************************)
\* what the short read of an opening source may carry
SplitChunks == 1..12

\* the source is opened and the application waits
SplitNext ==
    \/ OpenAsync
    \/ \E chunk \in 0..MaxChunk : ByteStreamReadOf(chunk, SplitChunks)
    \/ \E ub \in Undefined : OnByteStreamRead(ub)

SpecSplit == InitOn({FileCuesLast, FileSeekAll}) /\ [][SplitNext]_vars

\* the file offset of the first byte of the Segment's payload
SegmentPayloadOffset == Len(EbmlHeader) + Len(SegmentHeader)

\* the Segment header has been parsed
SegmentParsed ==
    /\ fault = "none"
    /\ ~m_parser.null
    /\ m_parser.m_masterData.SegmentPosition # 0

\* the byte stream is at the first byte of an element with one of the ids
StreamAt(ids) ==
    \E id \in ids :
        /\ bsPos' + Len(id) <= Len(file)
        /\ SubSeq(file, bsPos' + 1, bsPos' + Len(id)) = id

RECURSIVE CurrentBytes(_)
CurrentBytes(rs) ==
    IF rs = <<>> THEN 0
    ELSE (IF Head(rs).status = "ready" /\ Head(rs).issuedAt = m_cRestartCounter
          THEN Head(rs).n ELSE 0) + CurrentBytes(Tail(rs))

\* the file offset of the first byte of the window, were the window the
\* bytes of the file that end at the position of the byte stream
RangeStart == bsPos - CurrentBytes(reads) - DataSize(m_ReadBuffer)

\* the window is the range of the file that ends at the position of the
\* byte stream
WindowIsRange ==
    /\ RangeStart >= 0
    /\ \A k \in 1..DataSize(m_ReadBuffer) :
           /\ RangeStart + k <= Len(file)
           /\ m_ReadBuffer.arr[m_ReadBuffer.m_begin + k] = file[RangeStart + k]

\* a step in which ParseBytes is given the window
ParserReadsWindow == fault' = "none" /\ out'.parsed

\* C39: whenever the parser reads the window, the window is one range of
\* the file that ends at the position of the byte stream, also in a source
\* that has been stopped, which moves the byte stream to offset 0
C39_WindowIsRangeOfFile ==
    [][ParserReadsWindow => WindowIsRange]_vars

(***************************************************************************)
(* The reads of the current run.                                           *)
(***************************************************************************)
\* the reads OnByteStreamRead has not been given
Outstanding == {i \in 1..Len(reads) : reads[i].status \in {"pending", "ready"}}

\* the outstanding reads that OnByteStreamRead takes for reads of the
\* current run
CurrentReads == {i \in Outstanding : IsFresh(reads[i].tag, m_cRestartCounter)}

\* C40: at most one read tagged with the current restart counter is
\* outstanding, and at most one read waits for the byte stream, so that no
\* two reads are given the same free region of the read buffer
C40_OneCurrentRead ==
    fault = "none"
        => /\ Cardinality(CurrentReads) <= 1
           /\ Cardinality({i \in Outstanding : reads[i].status = "pending"}) <= 1

\* the source has been stopped and asked for a sample: a read of the run
\* before the Stop is outstanding and the read of the current run waits
C40_Witness ==
    /\ fault = "none"
    /\ m_cRestartCounter = 1
    /\ \E i \in Outstanding, j \in Outstanding :
           /\ reads[i].status = "ready"
           /\ reads[i].tag = 0
           /\ reads[j].status = "pending"
           /\ reads[j].tag = 1

=============================================================================
